---- MODULE Spec2Model ----
(***************************************************************************)
(* Model of the GIS risk engine of the property-analysis backend:          *)
(*   backend/gis_service.py  (five dataset probes, the risk aggregator)    *)
(*   backend/main.py         (ingestion of one CSV row, AI road override)  *)
(*   backend/ai_analysis_service.py (the road-access override policy)      *)
(*                                                                         *)
(* Python values are represented as follows.                               *)
(*   - An optional value (None or x) is a sequence of length 0 or 1.       *)
(*   - A str that the code inspects character by character (zone codes,    *)
(*     state and city hints) is a sequence of one-character strings.       *)
(*   - Enumerated strings (severities, confidences, sources) are strings.  *)
(*   - A dict key that is absent reads as "NONE" (dict.get -> None).       *)
(*   - Coordinates are integers in tenths of a degree, elevations are      *)
(*     integers in centimetres, distances are integers in metres.          *)
(***************************************************************************)
EXTENDS Integers, Sequences, FiniteSets, TLC

VARIABLES
    pc,          \* position of process_single_property for the row
    point,       \* [lat, lon]: geocoded coordinates handed to analyze_property
    state,       \* state hint of the row (optional str)
    city,        \* city hint of the row (optional str)
    result,      \* the dict analyze_property builds (risk_analysis)
    calls,       \* provider endpoints queried by the most recent probe
    answers,     \* what the providers answered to the most recent probe
    hardFailed,  \* probes whose every provider request raised / timed out / was non-200
    risk_result, \* the stored RiskResult row (<<>> when none)
    ai_record,   \* the stored AIAnalysisResult row (<<>> when none)
    aggIn,       \* arguments of a direct call of _calculate_overall_risk
    aggOut,      \* what that call left behind
    ovIn,        \* arguments of a direct call of check_and_determine_road_access_override
    ovOut,       \* the dict that call returned
    ai,          \* per AI worker: position and locals of process_single_property_ai
    ai_rows,     \* the AIAnalysisResult rows stored for the property
    overrides,   \* committed road-access overrides of the property's RiskResult
    geo,         \* per ingestion worker: position and locals of process_single_property
    now,         \* wall clock, in seconds
    stored_rows, \* rows of the upload that have a Property and a RiskResult
    processed_rows, \* Upload.processed_rows
    fzIn,        \* arguments of a direct call of _classify_flood_zone
    fzOut,       \* the severity that call returned
    pairIn,      \* two argument tuples of _calculate_overall_risk
    pairOut,     \* per tuple: the level the call on it returned
    ovAgain,     \* the dict the override policy returned when fed its own output
    upload_status, \* Upload.status
    ai_job       \* what trigger_ai_analysis answered so far for the upload

vars == <<pc, point, state, city, result, calls, answers, hardFailed,
          risk_result, ai_record, aggIn, aggOut, ovIn, ovOut,
          ai, ai_rows, overrides, geo, now, stored_rows, processed_rows,
          fzIn, fzOut, pairIn, pairOut, ovAgain, upload_status, ai_job>>

pipelineVars == <<pc, point, state, city, result, calls, answers, hardFailed,
                  risk_result, ai_record>>

aggVars == <<aggIn, aggOut>>

overrideVars == <<ovIn, ovOut>>

aiVars == <<ai, ai_rows, overrides>>

geoVars == <<geo, now, stored_rows, processed_rows>>

classifyVars == <<fzIn, fzOut>>

pairVars == <<pairIn, pairOut>>

uploadVars == <<upload_status, ai_job>>

lateVars == <<classifyVars, pairVars, ovAgain, uploadVars>>

sideVars == <<overrideVars, aiVars, geoVars, lateVars>>

-----------------------------------------------------------------------------
(* Python helpers *)

None == <<>>

Some(x) == <<x>>

IsNone(x) == x = <<>>

Val(x) == x[1]

LowerLetters == <<"a","b","c","d","e","f","g","h","i","j","k","l","m",
                  "n","o","p","q","r","s","t","u","v","w","x","y","z">>

UpperLetters == <<"A","B","C","D","E","F","G","H","I","J","K","L","M",
                  "N","O","P","Q","R","S","T","U","V","W","X","Y","Z">>

\* str.upper() on one character
UpperChar(c) ==
    IF \E i \in 1..26 : LowerLetters[i] = c
    THEN UpperLetters[CHOOSE i \in 1..26 : LowerLetters[i] = c]
    ELSE c

\* str.lower() on one character
LowerChar(c) ==
    IF \E i \in 1..26 : UpperLetters[i] = c
    THEN LowerLetters[CHOOSE i \in 1..26 : UpperLetters[i] = c]
    ELSE c

Upper(s) == [i \in 1..Len(s) |-> UpperChar(s[i])]

Lower(s) == [i \in 1..Len(s) |-> LowerChar(s[i])]

\* s.startswith(p)
StartsWith(s, p) == Len(s) >= Len(p) /\ SubSeq(s, 1, Len(p)) = p

\* p in s  (substring test)
Contains(s, p) ==
    \E i \in 1..(Len(s) - Len(p) + 1) : SubSeq(s, i, i + Len(p) - 1) = p

RECURSIVE LStrip(_)
LStrip(s) == IF s # <<>> /\ Head(s) = " " THEN LStrip(Tail(s)) ELSE s

RECURSIVE RStrip(_)
RStrip(s) ==
    IF s # <<>> /\ s[Len(s)] = " " THEN RStrip(SubSeq(s, 1, Len(s) - 1)) ELSE s

\* str.strip()
Strip(s) == RStrip(LStrip(s))

\* max() / min() of a non-empty list of numbers
Max(seq) == CHOOSE m \in {seq[i] : i \in 1..Len(seq)} :
                \A j \in 1..Len(seq) : seq[j] <= m

Min(seq) == CHOOSE m \in {seq[i] : i \in 1..Len(seq)} :
                \A j \in 1..Len(seq) : seq[j] >= m

\* round(n / d) for n >= 0, d > 0
RoundDiv(n, d) == (2 * n + d) \div (2 * d)

-----------------------------------------------------------------------------
(* Flood-zone classification *)

high_risk == { <<"A","E">>, <<"A","H">>, <<"A","O">>, <<"A","9","9">>,
               <<"A","R">>, <<"V","E">> }

high_risk_prefixes == { <<"A"," ">>, <<"V">> }

moderate_risk == { <<"B">>, <<"X","5","0","0">>,
                   <<"X","-","S","H","A","D","E","D">>,
                   <<"S","H","A","D","E","D">>,
                   <<"0",".","2"," ","P","C","T"," ","A","N","N","U","A","L",
                     " ","C","H","A","N","C","E">> }

\* the classification with the special-hazard-area flag left unread
_classify_flood_zone_IgnoreFlag(zone0, sfha) ==
    LET zone == IF zone0 # <<>> THEN Upper(zone0) ELSE <<"X">>
    IN  IF zone \in high_risk THEN "HIGH"
        ELSE IF \E prefix \in high_risk_prefixes : StartsWith(zone, prefix)
             THEN "HIGH"
        ELSE IF zone \in moderate_risk THEN "MEDIUM"
        ELSE IF \/ Contains(zone, <<"S","H","A","D","E","D">>)
                \/ Contains(zone, <<"X","5","0","0">>)
                \/ Contains(zone, <<"0",".","2">>)
             THEN "MEDIUM"
        ELSE "LOW"

\* _classify_flood_zone(zone, sfha): zone is a str (possibly empty),
\* sfha an optional str
_classify_flood_zone(zone0, sfha) ==
    LET zone == IF zone0 # <<>> THEN Upper(zone0) ELSE <<"X">>
    IN  IF sfha = Some("T") THEN "HIGH"
        ELSE IF zone \in high_risk THEN "HIGH"
        ELSE IF \E prefix \in high_risk_prefixes : StartsWith(zone, prefix)
             THEN "HIGH"
        ELSE IF zone \in moderate_risk THEN "MEDIUM"
        ELSE IF \/ Contains(zone, <<"S","H","A","D","E","D">>)
                \/ Contains(zone, <<"X","5","0","0">>)
                \/ Contains(zone, <<"0",".","2">>)
             THEN "MEDIUM"
        ELSE "LOW"

\* _classify_slope(percentage), with percentage = pct111 / 111
_classify_slope(pct111) ==
    IF pct111 > 15 * 111 THEN "HIGH"
    ELSE IF pct111 > 8 * 111 THEN "MEDIUM"
    ELSE "LOW"

-----------------------------------------------------------------------------
(* Provider responses.  kind is what the HTTP call did:                    *)
(*   "data"      status 200, payload with at least one feature / element   *)
(*   "nodata"    status 200, payload with an empty feature list            *)
(*   "nolist"    status 200, JSON payload without the feature list key     *)
(*   "non200"    any other status code                                     *)
(*   "exception" the call or the payload handling raised                   *)
(*   "timeout"   the call timed out (requests raises Timeout)              *)
(*   "unqueried" the code never issued the request                         *)

FailKinds == {"non200", "exception", "timeout"}

EmptyKinds == {"nodata", "nolist"}

NQ == [kind |-> "unqueried"]

IsFail(r) == r.kind \in FailKinds

Raises(r) == r.kind \in {"exception", "timeout"}

Ret(v) == [ret |-> TRUE, val |-> v]

Fall == [ret |-> FALSE, val |-> <<>>]

Run(v, c, h) == [raised |-> FALSE, val |-> v, calls |-> c, hard |-> h]

RaisedRun(c, h) == [raised |-> TRUE, val |-> <<>>, calls |-> c, hard |-> h]

-----------------------------------------------------------------------------
(* check_wetlands *)

Str_FL == <<"F","L">>

\* the first wetlands tier treating an empty answer as no answer
WetlandsTier1_EmptyFallsThrough(r) ==
    IF r.kind = "data"
    THEN Ret([status |-> TRUE, confidence |-> "HIGH",
              source |-> "ESRI Living Atlas (USFWS NWI)"])
    ELSE Fall

WetlandsTier1(r) ==
    IF r.kind = "data"
    THEN Ret([status |-> TRUE, confidence |-> "HIGH",
              source |-> "ESRI Living Atlas (USFWS NWI)"])
    ELSE IF r.kind \in EmptyKinds
    THEN Ret([status |-> FALSE, confidence |-> "HIGH",
              source |-> "ESRI Living Atlas (USFWS NWI)"])
    ELSE Fall

WetlandsTier2(r) ==
    IF r.kind = "data"
    THEN Ret([status |-> TRUE, confidence |-> "HIGH",
              source |-> "USFWS NWI Direct"])
    ELSE IF r.kind \in EmptyKinds
    THEN Ret([status |-> FALSE, confidence |-> "HIGH",
              source |-> "USFWS NWI Direct"])
    ELSE Fall

\* lines 222-238; the comparisons raise TypeError on a None coordinate
WetlandsFallback(latitude, longitude, st) ==
    IF ~IsNone(st) /\ Val(st) # <<>> /\ Upper(Val(st)) = Str_FL
    THEN IF IsNone(latitude) THEN [raised |-> TRUE, val |-> <<>>]
         ELSE IF ~(260 <= Val(latitude) /\ Val(latitude) <= 275)
         THEN [raised |-> FALSE,
               val |-> [status |-> FALSE, confidence |-> "LOW",
                        source |-> "Unable to verify (API unavailable)"]]
         ELSE IF IsNone(longitude) THEN [raised |-> TRUE, val |-> <<>>]
         ELSE IF -820 <= Val(longitude) /\ Val(longitude) <= -810
         THEN [raised |-> FALSE,
               val |-> [status |-> TRUE, confidence |-> "MEDIUM",
                        source |-> "Geographic heuristic (SW Florida wetlands zone)"]]
         ELSE [raised |-> FALSE,
               val |-> [status |-> FALSE, confidence |-> "LOW",
                        source |-> "Unable to verify (API unavailable)"]]
    ELSE [raised |-> FALSE,
          val |-> [status |-> FALSE, confidence |-> "LOW",
                   source |-> "Unable to verify (API unavailable)"]]

check_wetlands(latitude, longitude, st, rs) ==
    LET t1 == WetlandsTier1(rs[1])
        t2 == WetlandsTier2(rs[2])
        fb == WetlandsFallback(latitude, longitude, st)
        c1 == <<"ESRI_Wetlands">>
        c2 == <<"ESRI_Wetlands", "USFWS">>
    IN  IF t1.ret THEN Run(t1.val, c1, FALSE)
        ELSE IF t2.ret THEN Run(t2.val, c2, FALSE)
        ELSE IF fb.raised THEN RaisedRun(c2, IsFail(rs[1]) /\ IsFail(rs[2]))
        ELSE Run(fb.val, c2, IsFail(rs[1]) /\ IsFail(rs[2]))

-----------------------------------------------------------------------------
(* check_flood_zone *)

florida_high_flood_counties ==
    { <<"m","i","a","m","i","-","d","a","d","e">>,
      <<"b","r","o","w","a","r","d">>,
      <<"m","o","n","r","o","e">>,
      <<"c","o","l","l","i","e","r">>,
      <<"l","e","e">>,
      <<"c","h","a","r","l","o","t","t","e">>,
      <<"m","a","n","a","t","e","e">>,
      <<"p","i","n","e","l","l","a","s">>,
      <<"h","i","l","l","s","b","o","r","o","u","g","h">> }

\* f"{zone} ({zone_subty})"
FullZone(zone, zone_subty) == zone \o <<" ", "(">> \o zone_subty \o <<")">>

\* lines 254-304: ESRI Living Atlas mirror; r.zone, r.subty are optional strs
FloodTier1(r) ==
    IF r.kind = "data"
    THEN LET zone == IF ~IsNone(r.zone) /\ Val(r.zone) # <<>>
                     THEN Strip(Val(r.zone)) ELSE <<"X">>
             zone_subty == IF ~IsNone(r.subty) /\ Val(r.subty) # <<>>
                           THEN Strip(Val(r.subty)) ELSE <<>>
             sfha == r.sfha
             full_zone == IF zone_subty # <<>>
                          THEN FullZone(zone, zone_subty) ELSE zone
         IN  Ret([zone |-> full_zone,
                  severity |-> _classify_flood_zone(zone, Some(sfha)),
                  in_sfha |-> IF sfha = "T" THEN "True" ELSE "False",
                  confidence |-> "HIGH",
                  source |-> "ESRI Living Atlas (FEMA Data)"])
    ELSE Fall

\* lines 307-339: FEMA MSC identify; r.results is the list of results, each
\* an optional FLD_ZONE str (None: the result has no FLD_ZONE attribute)
FloodTier2(r) ==
    IF r.kind = "data" /\ \E i \in 1..Len(r.results) : ~IsNone(r.results[i])
    THEN LET i == CHOOSE k \in 1..Len(r.results) :
                      /\ ~IsNone(r.results[k])
                      /\ \A j \in 1..(k - 1) : IsNone(r.results[j])
             zone == Val(r.results[i])
         IN  Ret([zone |-> zone,
                  severity |-> _classify_flood_zone(zone, None),
                  in_sfha |-> "NONE",
                  confidence |-> "HIGH",
                  source |-> "FEMA MSC"])
    ELSE Fall

\* lines 342-388: FEMA NFHL buffered query; .strip() on a None attribute
\* raises AttributeError, which the except clause swallows
FloodTier3(r) ==
    IF r.kind = "data" /\ ~IsNone(r.zone) /\ ~IsNone(r.subty)
    THEN LET zone == Strip(Val(r.zone))
             zone_subty == Strip(Val(r.subty))
             sfha == r.sfha
             full_zone == IF zone_subty # <<>>
                          THEN FullZone(zone, zone_subty) ELSE zone
         IN  Ret([zone |-> full_zone,
                  severity |-> _classify_flood_zone(zone, Some(sfha)),
                  in_sfha |-> IF sfha = "T" THEN "True" ELSE "False",
                  confidence |-> "HIGH",
                  source |-> "FEMA NFHL"])
    ELSE Fall

\* lines 390-421
FloodFallback(cty, st) ==
    IF ~IsNone(st) /\ Val(st) # <<>> /\ Upper(Val(st)) = Str_FL
    THEN LET city_lower == IF ~IsNone(cty) /\ Val(cty) # <<>>
                           THEN Lower(Val(cty)) ELSE <<>>
         IN  IF \E county \in florida_high_flood_counties :
                    Contains(city_lower, county)
             THEN [zone |-> <<"A"," ","(","e","s","t","i","m","a","t","e","d",")">>,
                   severity |-> "HIGH", in_sfha |-> "NONE",
                   confidence |-> "LOW",
                   source |-> "Geographic estimate (coastal area)"]
             ELSE [zone |-> <<"X">>, severity |-> "LOW", in_sfha |-> "NONE",
                   confidence |-> "LOW",
                   source |-> "Geographic estimate (inland FL)"]
    ELSE [zone |-> <<"X">>, severity |-> "LOW", in_sfha |-> "NONE",
          confidence |-> "LOW", source |-> "Data unavailable"]

\* check_flood_zone querying the third tier although the second returned
check_flood_zone_QueryAll(latitude, longitude, cty, st, rs) ==
    LET t1 == FloodTier1(rs[1])
        coords == ~IsNone(latitude) /\ ~IsNone(longitude)
        t2 == IF coords THEN FloodTier2(rs[2]) ELSE Fall
        t3 == FloodTier3(rs[3])
        c1 == <<"ESRI_FEMA">>
        c2 == IF coords THEN <<"ESRI_FEMA", "FEMA_MSC">> ELSE c1
        c3 == Append(c2, "FEMA_NFHL")
        hard == /\ IsFail(rs[1])
                /\ (coords => IsFail(rs[2]))
                /\ IsFail(rs[3])
    IN  IF t1.ret THEN Run(t1.val, c1, FALSE)
        ELSE IF t2.ret THEN Run(t2.val, c3, FALSE)
        ELSE IF t3.ret THEN Run(t3.val, c3, FALSE)
        ELSE Run(FloodFallback(cty, st), c3, hard)

\* The second tier builds its mapExtent with longitude-0.01 before the
\* request: on a None coordinate that raises inside the try, no request made.
check_flood_zone(latitude, longitude, cty, st, rs) ==
    LET t1 == FloodTier1(rs[1])
        coords == ~IsNone(latitude) /\ ~IsNone(longitude)
        t2 == IF coords THEN FloodTier2(rs[2]) ELSE Fall
        t3 == FloodTier3(rs[3])
        c1 == <<"ESRI_FEMA">>
        c2 == IF coords THEN <<"ESRI_FEMA", "FEMA_MSC">> ELSE c1
        c3 == Append(c2, "FEMA_NFHL")
        hard == /\ IsFail(rs[1])
                /\ (coords => IsFail(rs[2]))
                /\ IsFail(rs[3])
    IN  IF t1.ret THEN Run(t1.val, c1, FALSE)
        ELSE IF t2.ret THEN Run(t2.val, c2, FALSE)
        ELSE IF t3.ret THEN Run(t3.val, c3, FALSE)
        ELSE Run(FloodFallback(cty, st), c3, hard)

-----------------------------------------------------------------------------
(* check_slope *)

\* lines 480-522: USGS point query, three requests; rs is the list of the
\* three responses, r.elev the elevation in centimetres
RECURSIVE SlopeTier1Loop(_, _, _)
SlopeTier1Loop(rs, i, elevations) ==
    IF i > Len(rs) THEN [raised |-> FALSE, elevations |-> elevations, n |-> Len(rs)]
    ELSE IF Raises(rs[i]) THEN [raised |-> TRUE, elevations |-> elevations, n |-> i]
    ELSE IF rs[i].kind = "data"
         THEN SlopeTier1Loop(rs, i + 1, Append(elevations, rs[i].elev))
         ELSE SlopeTier1Loop(rs, i + 1, elevations)

\* slope_percentage = elevation_change / (offset * 111000) * 100; the
\* result keeps slope_percentage * 111 exactly (pct111) to classify, and
\* round(slope_percentage, 2) in hundredths of a percent
SlopeResult(elevations, src) ==
    LET elevation_change == Max(elevations) - Min(elevations)
        pct111 == elevation_change * 10
    IN  [percentage |-> RoundDiv(elevation_change * 1000, 111),
         severity |-> _classify_slope(pct111),
         confidence |-> "HIGH",
         source |-> src]

SlopeTier1(rs) ==
    LET l == SlopeTier1Loop(rs, 1, <<>>)
    IN  IF ~l.raised /\ Len(l.elevations) >= 2
        THEN Ret(SlopeResult(l.elevations, "USGS Elevation API"))
        ELSE Fall

\* lines 525-554: Open-Elevation, one POST; r.elevations is the list of
\* elevations of data["results"]
SlopeTier2(r) ==
    IF r.kind = "data" /\ Len(r.elevations) >= 2
    THEN Ret(SlopeResult(r.elevations, "Open-Elevation API"))
    ELSE Fall

\* lines 556-571
SlopeFallback(st) ==
    IF ~IsNone(st) /\ Val(st) # <<>> /\ Upper(Val(st)) = Str_FL
    THEN [percentage |-> 50, severity |-> "LOW", confidence |-> "MEDIUM",
          source |-> "Geographic estimate (Florida is generally flat)"]
    ELSE [percentage |-> 0, severity |-> "UNKNOWN", confidence |-> "LOW",
          source |-> "Unable to calculate (API unavailable)"]

\* Both tiers compute latitude + offset before any request: a None
\* coordinate raises TypeError inside each try and no request is made.
check_slope(latitude, longitude, st, rs) ==
    LET coords == ~IsNone(latitude) /\ ~IsNone(longitude)
        l  == SlopeTier1Loop(rs[1], 1, <<>>)
        t1 == IF coords THEN SlopeTier1(rs[1]) ELSE Fall
        t2 == IF coords THEN SlopeTier2(rs[2]) ELSE Fall
        c1 == IF coords THEN [i \in 1..l.n |-> "USGS"] ELSE <<>>
        c2 == IF coords THEN Append(c1, "OpenElevation") ELSE <<>>
        hard == coords => /\ \A i \in 1..l.n : IsFail(rs[1][i])
                          /\ IsFail(rs[2])
    IN  IF t1.ret THEN Run(t1.val, c1, FALSE)
        ELSE IF t2.ret THEN Run(t2.val, c2, FALSE)
        ELSE Run(SlopeFallback(st), c2, hard)

-----------------------------------------------------------------------------
(* check_road_access *)

\* The elements of the Overpass answer that carry coordinates ('center', or
\* 'lat' and 'lon'); e.dist stands for _haversine_distance(point, element).
RoadDistances(elements) ==
    { elements[i].dist : i \in { k \in 1..Len(elements) :
                                    elements[k].shape \in {"center", "latlon"} } }

\* check_road_access granting access only strictly inside the threshold
check_road_access_StrictThreshold(latitude, longitude, distance_threshold, rs) ==
    LET r == rs[1]
        coords == ~IsNone(latitude) /\ ~IsNone(longitude)
        ds == IF r.kind = "data" THEN RoadDistances(r.elements) ELSE {}
        min_distance == CHOOSE m \in ds : \A d \in ds : m <= d
        fallback == [has_access |-> TRUE, distance_meters |-> 0,
                     confidence |-> "LOW",
                     source |-> "Assumed accessible (verification unavailable)"]
        c == <<"Overpass">>
    IN  IF r.kind = "data" /\ ds # {} /\ coords
        THEN Run([has_access |-> (min_distance < distance_threshold),
                  distance_meters |-> min_distance,
                  confidence |-> "HIGH",
                  source |-> "OpenStreetMap (Overpass API)"], c, FALSE)
        ELSE Run(fallback, c, IsFail(r))

\* check_road_access denying access when the provider call failed
check_road_access_FailClosed(latitude, longitude, distance_threshold, rs) ==
    LET r == rs[1]
        coords == ~IsNone(latitude) /\ ~IsNone(longitude)
        ds == IF r.kind = "data" THEN RoadDistances(r.elements) ELSE {}
        min_distance == CHOOSE m \in ds : \A d \in ds : m <= d
        fallback == [has_access |-> ~IsFail(r), distance_meters |-> 0,
                     confidence |-> "LOW",
                     source |-> "Assumed accessible (verification unavailable)"]
        c == <<"Overpass">>
    IN  IF r.kind = "data" /\ ds # {} /\ coords
        THEN Run([has_access |-> (min_distance <= distance_threshold),
                  distance_meters |-> min_distance,
                  confidence |-> "HIGH",
                  source |-> "OpenStreetMap (Overpass API)"], c, FALSE)
        ELSE Run(fallback, c, IsFail(r))

\* check_road_access without its try/except: a raising request propagates
check_road_access_NoCatch(latitude, longitude, distance_threshold, rs) ==
    LET r == rs[1]
        coords == ~IsNone(latitude) /\ ~IsNone(longitude)
        ds == IF r.kind = "data" THEN RoadDistances(r.elements) ELSE {}
        min_distance == CHOOSE m \in ds : \A d \in ds : m <= d
        fallback == [has_access |-> TRUE, distance_meters |-> 0,
                     confidence |-> "LOW",
                     source |-> "Assumed accessible (verification unavailable)"]
        c == <<"Overpass">>
    IN  IF Raises(r) THEN RaisedRun(c, TRUE)
        ELSE IF r.kind = "data" /\ ds # {} /\ coords
        THEN Run([has_access |-> (min_distance <= distance_threshold),
                  distance_meters |-> min_distance,
                  confidence |-> "HIGH",
                  source |-> "OpenStreetMap (Overpass API)"], c, FALSE)
        ELSE Run(fallback, c, IsFail(r))

\* lines 591-647
check_road_access(latitude, longitude, distance_threshold, rs) ==
    LET r == rs[1]
        coords == ~IsNone(latitude) /\ ~IsNone(longitude)
        ds == IF r.kind = "data" THEN RoadDistances(r.elements) ELSE {}
        min_distance == CHOOSE m \in ds : \A d \in ds : m <= d
        fallback == [has_access |-> TRUE, distance_meters |-> 0,
                     confidence |-> "LOW",
                     source |-> "Assumed accessible (verification unavailable)"]
        c == <<"Overpass">>
    IN  IF r.kind = "data" /\ ds # {} /\ coords
        THEN Run([has_access |-> (min_distance <= distance_threshold),
                  distance_meters |-> min_distance,
                  confidence |-> "HIGH",
                  source |-> "OpenStreetMap (Overpass API)"], c, FALSE)
        ELSE Run(fallback, c, IsFail(r))

-----------------------------------------------------------------------------
(* check_protected_land *)

\* check_protected_land reporting an empty answer as unverified
check_protected_land_EmptyIsLow(latitude, longitude, rs) ==
    LET r == rs[1]
        c == <<"PADUS">>
    IN  IF r.kind = "data"
        THEN Run([is_protected |-> TRUE, type |-> r.category,
                  confidence |-> "HIGH", source |-> "PAD-US"], c, FALSE)
        ELSE IF r.kind \in EmptyKinds
        THEN Run([is_protected |-> FALSE, type |-> "NONE",
                  confidence |-> "LOW", source |-> "PAD-US"], c, FALSE)
        ELSE Run([is_protected |-> FALSE, type |-> "NONE",
                  confidence |-> "LOW",
                  source |-> "Unable to verify (API unavailable)"], c, TRUE)

\* lines 682-728
check_protected_land(latitude, longitude, rs) ==
    LET r == rs[1]
        c == <<"PADUS">>
    IN  IF r.kind = "data"
        THEN Run([is_protected |-> TRUE, type |-> r.category,
                  confidence |-> "HIGH", source |-> "PAD-US"], c, FALSE)
        ELSE IF r.kind \in EmptyKinds
        THEN Run([is_protected |-> FALSE, type |-> "NONE",
                  confidence |-> "HIGH", source |-> "PAD-US"], c, FALSE)
        ELSE Run([is_protected |-> FALSE, type |-> "NONE",
                  confidence |-> "LOW",
                  source |-> "Unable to verify (API unavailable)"], c, TRUE)

-----------------------------------------------------------------------------
(* _calculate_overall_risk *)

\* risk_score with protected land left out of the sum
RiskScore_NoProtectedLand(wetlands, flood_zone, slope, protected_land) ==
      (IF wetlands.status THEN 2 ELSE 0)
    + (IF flood_zone.severity = "MEDIUM" THEN 2 ELSE 0)
    + (IF slope.severity = "HIGH" THEN 2
       ELSE IF slope.severity = "MEDIUM" THEN 1 ELSE 0)

\* risk_score after lines 762-788
RiskScore(wetlands, flood_zone, slope, protected_land) ==
      (IF wetlands.status THEN 2 ELSE 0)
    + (IF flood_zone.severity = "MEDIUM" THEN 2 ELSE 0)
    + (IF slope.severity = "HIGH" THEN 2
       ELSE IF slope.severity = "MEDIUM" THEN 1 ELSE 0)
    + (IF protected_land.is_protected THEN 2 ELSE 0)

\* confidence_penalties counting the confidence of the slope result as well
ConfidencePenalties_SlopeConfidence(wetlands, flood_zone, slope) ==
      (IF wetlands.confidence # "HIGH" THEN 1 ELSE 0)
    + (IF flood_zone.severity = "UNKNOWN" THEN 1 ELSE 0)
    + (IF flood_zone.confidence # "HIGH" THEN 1 ELSE 0)
    + (IF slope.severity = "UNKNOWN" THEN 1 ELSE 0)
    + (IF slope.confidence # "HIGH" THEN 1 ELSE 0)

\* confidence_penalties after lines 762-788
ConfidencePenalties(wetlands, flood_zone, slope) ==
      (IF wetlands.confidence # "HIGH" THEN 1 ELSE 0)
    + (IF flood_zone.severity = "UNKNOWN" THEN 1 ELSE 0)
    + (IF flood_zone.confidence # "HIGH" THEN 1 ELSE 0)
    + (IF slope.severity = "UNKNOWN" THEN 1 ELSE 0)

\* the point thresholds tested before the unknown-penalty counter
ClassifyScore_PointsFirst(risk_score, confidence_penalties) ==
    IF risk_score >= 5 THEN "HIGH"
    ELSE IF confidence_penalties >= 3 THEN "UNKNOWN"
    ELSE IF risk_score >= 3 THEN "MEDIUM"
    ELSE "LOW"

\* lines 790-800
ClassifyScore(risk_score, confidence_penalties) ==
    IF confidence_penalties >= 3 THEN "UNKNOWN"
    ELSE IF risk_score >= 5 THEN "HIGH"
    ELSE IF risk_score >= 3 THEN "MEDIUM"
    ELSE "LOW"

\* the second disqualifier testing the landlocked flag only
AggregatorRun_LandlockedOnly(wetlands, flood_zone, slope, road_access, landlocked, protected_land) ==
    IF flood_zone.severity = "HIGH"
    THEN [risk_level |-> "HIGH", landlocked |-> landlocked, corrected |-> FALSE]
    ELSE IF landlocked
    THEN [risk_level |-> "HIGH", landlocked |-> landlocked, corrected |-> FALSE]
    ELSE [risk_level |->
              ClassifyScore(RiskScore(wetlands, flood_zone, slope, protected_land),
                            ConfidencePenalties(wetlands, flood_zone, slope)),
          landlocked |-> landlocked,
          corrected |-> FALSE]

\* One execution of _calculate_overall_risk: the value returned, the value
\* of the local name `landlocked` when it returns, and whether line 760
\* (the consistency correction) was executed.
AggregatorRun(wetlands, flood_zone, slope, road_access, landlocked, protected_land) ==
    IF flood_zone.severity = "HIGH"
    THEN [risk_level |-> "HIGH", landlocked |-> landlocked, corrected |-> FALSE]
    ELSE IF landlocked \/ ~road_access.has_access
    THEN [risk_level |-> "HIGH", landlocked |-> landlocked, corrected |-> FALSE]
    ELSE LET fix == road_access.has_access /\ landlocked
         IN  [risk_level |->
                  ClassifyScore(RiskScore(wetlands, flood_zone, slope, protected_land),
                                ConfidencePenalties(wetlands, flood_zone, slope)),
              landlocked |-> IF fix THEN FALSE ELSE landlocked,
              corrected |-> fix]

_calculate_overall_risk(wetlands, flood_zone, slope, road_access, landlocked, protected_land) ==
    AggregatorRun(wetlands, flood_zone, slope, road_access, landlocked,
                  protected_land).risk_level

-----------------------------------------------------------------------------
(* AI override policy (ai_analysis_service.py) *)

\* check_and_determine_road_access_override; road_condition is an optional
\* [type, confidence] with confidence in hundredths
\* the policy with the third case firing from 100 m on
check_and_determine_road_access_override_AtLeast100(road_condition, gis_road_access, gis_road_distance) ==
    LET keep == [should_override |-> FALSE,
                 new_road_access |-> gis_road_access,
                 new_road_distance |-> gis_road_distance]
    IN  IF IsNone(road_condition) THEN keep
        ELSE LET road_type == Val(road_condition).type
                 confidence == Val(road_condition).confidence
             IN  IF confidence >= 60
                 THEN IF road_type \in {"DIRT", "GRAVEL"} /\ ~gis_road_access
                      THEN [should_override |-> TRUE, new_road_access |-> TRUE,
                            new_road_distance |-> 50]
                      ELSE IF road_type = "PAVED" /\ ~gis_road_access
                      THEN [should_override |-> TRUE, new_road_access |-> TRUE,
                            new_road_distance |-> 30]
                      ELSE IF /\ road_type = "UNKNOWN"
                              /\ gis_road_access
                              /\ gis_road_distance >= 100
                      THEN [should_override |-> TRUE, new_road_access |-> FALSE,
                            new_road_distance |-> gis_road_distance]
                      ELSE keep
                 ELSE keep

\* the policy reporting an override in the third case while leaving the
\* access fact as the GIS had it
check_and_determine_road_access_override_UnknownKeepsAccess(road_condition, gis_road_access, gis_road_distance) ==
    LET keep == [should_override |-> FALSE,
                 new_road_access |-> gis_road_access,
                 new_road_distance |-> gis_road_distance]
    IN  IF IsNone(road_condition) THEN keep
        ELSE LET road_type == Val(road_condition).type
                 confidence == Val(road_condition).confidence
             IN  IF confidence >= 60
                 THEN IF road_type \in {"DIRT", "GRAVEL"} /\ ~gis_road_access
                      THEN [should_override |-> TRUE, new_road_access |-> TRUE,
                            new_road_distance |-> 50]
                      ELSE IF road_type = "PAVED" /\ ~gis_road_access
                      THEN [should_override |-> TRUE, new_road_access |-> TRUE,
                            new_road_distance |-> 30]
                      ELSE IF /\ road_type = "UNKNOWN"
                              /\ gis_road_access
                              /\ gis_road_distance > 100
                      THEN [should_override |-> TRUE,
                            new_road_access |-> gis_road_access,
                            new_road_distance |-> gis_road_distance]
                      ELSE keep
                 ELSE keep

\* the policy flipping the access fact in the third case whichever way the
\* GIS had it
check_and_determine_road_access_override_UnknownEitherWay(road_condition, gis_road_access, gis_road_distance) ==
    LET keep == [should_override |-> FALSE,
                 new_road_access |-> gis_road_access,
                 new_road_distance |-> gis_road_distance]
    IN  IF IsNone(road_condition) THEN keep
        ELSE LET road_type == Val(road_condition).type
                 confidence == Val(road_condition).confidence
             IN  IF confidence >= 60
                 THEN IF road_type \in {"DIRT", "GRAVEL"} /\ ~gis_road_access
                      THEN [should_override |-> TRUE, new_road_access |-> TRUE,
                            new_road_distance |-> 50]
                      ELSE IF road_type = "PAVED" /\ ~gis_road_access
                      THEN [should_override |-> TRUE, new_road_access |-> TRUE,
                            new_road_distance |-> 30]
                      ELSE IF /\ road_type = "UNKNOWN"
                              /\ gis_road_distance > 100
                      THEN [should_override |-> TRUE,
                            new_road_access |-> ~gis_road_access,
                            new_road_distance |-> gis_road_distance]
                      ELSE keep
                 ELSE keep

\* the policy without the confidence threshold
check_and_determine_road_access_override_NoThreshold(road_condition, gis_road_access, gis_road_distance) ==
    LET keep == [should_override |-> FALSE,
                 new_road_access |-> gis_road_access,
                 new_road_distance |-> gis_road_distance]
    IN  IF IsNone(road_condition) THEN keep
        ELSE LET road_type == Val(road_condition).type
             IN  IF road_type \in {"DIRT", "GRAVEL"} /\ ~gis_road_access
                 THEN [should_override |-> TRUE, new_road_access |-> TRUE,
                       new_road_distance |-> 50]
                 ELSE IF road_type = "PAVED" /\ ~gis_road_access
                 THEN [should_override |-> TRUE, new_road_access |-> TRUE,
                       new_road_distance |-> 30]
                 ELSE IF /\ road_type = "UNKNOWN"
                         /\ gis_road_access
                         /\ gis_road_distance > 100
                 THEN [should_override |-> TRUE, new_road_access |-> FALSE,
                       new_road_distance |-> gis_road_distance]
                 ELSE keep

check_and_determine_road_access_override(road_condition, gis_road_access, gis_road_distance) ==
    LET keep == [should_override |-> FALSE,
                 new_road_access |-> gis_road_access,
                 new_road_distance |-> gis_road_distance]
    IN  IF IsNone(road_condition) THEN keep
        ELSE LET road_type == Val(road_condition).type
                 confidence == Val(road_condition).confidence
             IN  IF confidence >= 60
                 THEN IF road_type \in {"DIRT", "GRAVEL"} /\ ~gis_road_access
                      THEN [should_override |-> TRUE, new_road_access |-> TRUE,
                            new_road_distance |-> 50]
                      ELSE IF road_type = "PAVED" /\ ~gis_road_access
                      THEN [should_override |-> TRUE, new_road_access |-> TRUE,
                            new_road_distance |-> 30]
                      ELSE IF /\ road_type = "UNKNOWN"
                              /\ gis_road_access
                              /\ gis_road_distance > 100
                      THEN [should_override |-> TRUE, new_road_access |-> FALSE,
                            new_road_distance |-> gis_road_distance]
                      ELSE keep
                 ELSE keep

-----------------------------------------------------------------------------
(* Bounds and the environment: what the providers may answer *)

MaxResults == 2      \* results in one FEMA MSC identify answer

MaxElevations == 2   \* entries in one Open-Elevation answer

MaxElements == 2     \* ways in one Overpass answer

\* all sequences over S of length lo..hi
SeqsOf(S, lo, hi) == UNION { [1..n -> S] : n \in lo..hi }

Str_AE == <<"A","E">>

Str_X == <<"X">>

Str_B == <<"B">>

Str_Subty == <<"0",".","2"," ","P","C","T"," ","A","N","N","U","A","L"," ",
               "C","H","A","N","C","E"," ","F","L","O","O","D"," ",
               "H","A","Z","A","R","D">>

Str_fl == <<"f","l">>

Str_TX == <<"T","X">>

Str_Leesburg == <<"L","e","e","s","b","u","r","g">>

Str_Ocala == <<"O","c","a","l","a">>

ZoneAttrs == {None, Some(Str_AE), Some(Str_X), Some(Str_B)}

SubtyAttrs == {None, Some(<<>>), Some(Str_Subty)}

Elevs == {0, 100, 200}

RoadDists == {50, 200, 250}

OtherKinds == EmptyKinds \cup FailKinds

WetResp == {[kind |-> "data"]} \cup {[kind |-> k] : k \in OtherKinds}

FloodResp13 ==
    {[kind |-> "data", zone |-> z, subty |-> y, sfha |-> f] :
        z \in ZoneAttrs, y \in SubtyAttrs, f \in {"T", "F"}}
    \cup {[kind |-> k] : k \in OtherKinds}

FloodResp2 ==
    {[kind |-> "data", results |-> rs] :
        rs \in SeqsOf({None, Some(Str_AE), Some(Str_X)}, 1, MaxResults)}
    \cup {[kind |-> k] : k \in OtherKinds}

ElevResp ==
    {[kind |-> "data", elev |-> e] : e \in Elevs}
    \cup {[kind |-> k] : k \in {"nodata"} \cup FailKinds}

SlopeResp2 ==
    {[kind |-> "data", elevations |-> es] : es \in SeqsOf(Elevs, 0, MaxElevations)}
    \cup {[kind |-> k] : k \in {"nolist"} \cup FailKinds}

RoadElems ==
    {[shape |-> sh, dist |-> d] : sh \in {"center", "latlon"}, d \in RoadDists}
    \cup {[shape |-> "none", dist |-> 0]}

RoadResp ==
    {[kind |-> "data", elements |-> es] : es \in SeqsOf(RoadElems, 1, MaxElements)}
    \cup {[kind |-> k] : k \in OtherKinds}

ProtResp ==
    {[kind |-> "data", category |-> "Federal"]}
    \cup {[kind |-> k] : k \in OtherKinds}

\* The answers of one probe execution: a request the code never issues has
\* the answer NQ, so that each execution is listed once.
WetlandsRuns ==
    {<<r1, NQ>> : r1 \in {r \in WetResp : WetlandsTier1(r).ret}}
    \cup {<<r1, r2>> : r1 \in {r \in WetResp : ~WetlandsTier1(r).ret},
                       r2 \in WetResp}

FloodRuns ==
    LET fall1 == {r \in FloodResp13 : ~FloodTier1(r).ret}
        fall2 == {r \in FloodResp2 : ~FloodTier2(r).ret}
    IN  {<<r1, NQ, NQ>> : r1 \in FloodResp13 \ fall1}
        \cup {<<r1, r2, NQ>> : r1 \in fall1, r2 \in FloodResp2 \ fall2}
        \cup {<<r1, r2, r3>> : r1 \in fall1, r2 \in fall2, r3 \in FloodResp13}

\* without coordinates the second tier issues no request
FloodRunsNoCoords ==
    LET fall1 == {r \in FloodResp13 : ~FloodTier1(r).ret}
    IN  {<<r1, NQ, NQ>> : r1 \in FloodResp13 \ fall1}
        \cup {<<r1, NQ, r3>> : r1 \in fall1, r3 \in FloodResp13}

SlopeTier1Runs ==
    {<<r1, NQ, NQ>> : r1 \in {r \in ElevResp : Raises(r)}}
    \cup {<<r1, r2, NQ>> : r1 \in {r \in ElevResp : ~Raises(r)},
                           r2 \in {r \in ElevResp : Raises(r)}}
    \cup {<<r1, r2, r3>> : r1 \in {r \in ElevResp : ~Raises(r)},
                           r2 \in {r \in ElevResp : ~Raises(r)},
                           r3 \in ElevResp}

SlopeRuns ==
    {<<t, NQ>> : t \in {x \in SlopeTier1Runs : SlopeTier1(x).ret}}
    \cup {<<t, r2>> : t \in {x \in SlopeTier1Runs : ~SlopeTier1(x).ret},
                      r2 \in SlopeResp2}

SlopeRunsNoCoords == {<<(<<NQ, NQ, NQ>>), NQ>>}

RoadRuns == {<<r>> : r \in RoadResp}

ProtRuns == {<<r>> : r \in ProtResp}

-----------------------------------------------------------------------------
(* The answers the providers give while a CSV row is ingested.  They cover  *)
(* every kind of answer at every request, with one payload per outcome of   *)
(* the probe.                                                               *)

RowFloodData ==
    { [kind |-> "data", zone |-> Some(Str_AE), subty |-> None, sfha |-> "T"],
      [kind |-> "data", zone |-> Some(Str_B), subty |-> None, sfha |-> "F"],
      [kind |-> "data", zone |-> None, subty |-> None, sfha |-> "F"],
      [kind |-> "data", zone |-> Some(Str_X), subty |-> Some(<<>>), sfha |-> "F"],
      [kind |-> "data", results |-> <<Some(Str_X)>>] }

RowElevData ==
    { <<[kind |-> "data", elev |-> 0], [kind |-> "data", elev |-> e],
        [kind |-> "data", elev |-> 0]>> : e \in Elevs }

RowWetlandsRuns == WetlandsRuns

RowFloodRuns ==
    {rs \in FloodRuns : \A i \in 1..3 : rs[i].kind = "data" => rs[i] \in RowFloodData}

RowFloodRunsNoCoords ==
    {rs \in FloodRunsNoCoords :
        \A i \in 1..3 : rs[i].kind = "data" => rs[i] \in RowFloodData}

RowSlopeRuns ==
    {rs \in SlopeRuns :
        /\ \/ rs[1] \in RowElevData
           \/ /\ \A i \in 1..3 : rs[1][i].kind \notin {"data"}
              /\ \A i \in 1..3 : rs[1][i].kind \in {rs[1][1].kind, "unqueried"}
        /\ rs[2].kind = "data" => rs[2].elevations = <<0, 100>>}

RowRoadRuns ==
    {rs \in RoadRuns :
        rs[1].kind = "data" =>
            /\ Len(rs[1].elements) = 1
            /\ rs[1].elements[1].shape = "center"}

RowProtRuns == ProtRuns

-----------------------------------------------------------------------------
(* Ingestion of one row: process_single_property / analyze_property *)

NoCoords == [lat |-> None, lon |-> None]

GeoPoints == { [lat |-> Some(265), lon |-> Some(-815)],
               [lat |-> Some(265), lon |-> Some(-800)],
               [lat |-> Some(300), lon |-> Some(-815)] }

\* coordinates of a geocoded row; the geocoder's payload is not validated
RowPoints == { NoCoords,
               [lat |-> Some(265), lon |-> Some(-815)],
               [lat |-> Some(265), lon |-> Some(-800)] }

StateHints == {Some(Str_fl), Some(Str_TX)}

CityHints == {Some(Str_Leesburg), Some(Str_Ocala)}

EmptyResult ==
    [wetlands |-> None, flood_zone |-> None, slope |-> None,
     road_access |-> None, landlocked |-> None, protected_land |-> None,
     overall_risk |-> "NONE", error |-> "NONE"]

\* the dict of the except branch of analyze_property (lines 122-140)
ErrorResult ==
    [wetlands |-> Some([status |-> FALSE, confidence |-> "LOW", source |-> "Error"]),
     flood_zone |-> Some([zone |-> <<"U","n","k","n","o","w","n">>,
                          severity |-> "UNKNOWN", in_sfha |-> "NONE",
                          confidence |-> "NONE", source |-> "Error"]),
     slope |-> Some([percentage |-> 0, severity |-> "UNKNOWN",
                     confidence |-> "NONE", source |-> "Error"]),
     road_access |-> Some([has_access |-> FALSE, distance_meters |-> 0,
                           confidence |-> "NONE", source |-> "Error"]),
     landlocked |-> Some(FALSE),
     protected_land |-> Some([is_protected |-> FALSE, type |-> "NONE",
                              confidence |-> "NONE", source |-> "Error"]),
     overall_risk |-> "UNKNOWN",
     error |-> "TypeError"]

\* RiskResult(...) of process_single_property (main.py lines 326-352)
RiskResultOf(risk_analysis) ==
    [wetlands_status |-> Val(risk_analysis.wetlands).status,
     wetlands_source |-> Val(risk_analysis.wetlands).source,
     flood_zone |-> Val(risk_analysis.flood_zone).zone,
     flood_severity |-> Val(risk_analysis.flood_zone).severity,
     flood_source |-> Val(risk_analysis.flood_zone).source,
     slope_percentage |-> Val(risk_analysis.slope).percentage,
     slope_severity |-> Val(risk_analysis.slope).severity,
     slope_source |-> Val(risk_analysis.slope).source,
     road_access |-> Val(risk_analysis.road_access).has_access,
     road_distance_meters |-> Val(risk_analysis.road_access).distance_meters,
     road_source |-> Val(risk_analysis.road_access).source,
     landlocked |-> Val(risk_analysis.landlocked),
     protected_land |-> Val(risk_analysis.protected_land).is_protected,
     protected_land_type |-> Val(risk_analysis.protected_land).type,
     protected_land_source |-> Val(risk_analysis.protected_land).source,
     overall_risk |-> risk_analysis.overall_risk,
     error_message |-> risk_analysis.error]

\* no direct call of the classifier or of the aggregator on a pair, no
\* second override call, and the upload as process_csv created it
LateIdle ==
    /\ fzIn = None
    /\ fzOut = None
    /\ pairIn = None
    /\ pairOut = <<None, None>>
    /\ ovAgain = None
    /\ upload_status = "processing"
    /\ ai_job = [rejected |-> FALSE, queued |-> FALSE]

\* no direct override call, no AI worker and no ingestion batch under way
SideIdle ==
    /\ LateIdle
    /\ ovIn = None
    /\ ovOut = None
    /\ ai = <<>>
    /\ ai_rows = <<>>
    /\ overrides = 0
    /\ geo = <<>>
    /\ now = 0
    /\ stored_rows = {}
    /\ processed_rows = 0

Idle ==
    /\ pc = "idle"
    /\ point = NoCoords
    /\ state = None
    /\ city = None
    /\ result = EmptyResult
    /\ calls = <<>>
    /\ answers = <<>>
    /\ hardFailed = {}
    /\ risk_result = None
    /\ ai_record = None

Init ==
    /\ pc = "wetlands"
    /\ point \in RowPoints
    /\ state \in StateHints
    /\ city \in CityHints
    /\ result = EmptyResult
    /\ calls = <<>>
    /\ answers = <<>>
    /\ hardFailed = {}
    /\ risk_result = None
    /\ ai_record = None
    /\ aggIn = None
    /\ aggOut = None
    /\ SideIdle

Mark(probe, run) == IF run.hard THEN hardFailed \cup {probe} ELSE hardFailed

HasCoords == ~IsNone(point.lat) /\ ~IsNone(point.lon)

\* what every probe call leaves behind for the checks
Observe(probe, run, rs) ==
    /\ calls' = run.calls
    /\ answers' = rs
    /\ hardFailed' = Mark(probe, run)

\* analyze_property lines 122-140: an exception raised anywhere in the try
\* block yields the fixed dict, which process_single_property stores
ExceptBranch ==
    /\ result' = ErrorResult
    /\ risk_result' = Some(RiskResultOf(ErrorResult))
    /\ pc' = "stored"

\* analyze_property line 87
CheckWetlands ==
    /\ pc = "wetlands"
    /\ \E rs \in RowWetlandsRuns :
         LET run == check_wetlands(point.lat, point.lon, state, rs)
         IN  /\ Observe("wetlands", run, rs)
             /\ IF run.raised
                THEN ExceptBranch
                ELSE /\ result' = [result EXCEPT !.wetlands = Some(run.val)]
                     /\ risk_result' = risk_result
                     /\ pc' = "flood"
    /\ UNCHANGED <<point, state, city, ai_record, aggVars, sideVars>>

\* analyze_property line 88
CheckFloodZone ==
    /\ pc = "flood"
    /\ \E rs \in (IF HasCoords THEN RowFloodRuns ELSE RowFloodRunsNoCoords) :
         LET run == check_flood_zone(point.lat, point.lon, city, state, rs)
         IN  /\ Observe("flood_zone", run, rs)
             /\ IF run.raised
                THEN ExceptBranch
                ELSE /\ result' = [result EXCEPT !.flood_zone = Some(run.val)]
                     /\ risk_result' = risk_result
                     /\ pc' = "slope"
    /\ UNCHANGED <<point, state, city, ai_record, aggVars, sideVars>>

\* analyze_property line 89
CheckSlope ==
    /\ pc = "slope"
    /\ \E rs \in (IF HasCoords THEN RowSlopeRuns ELSE SlopeRunsNoCoords) :
         LET run == check_slope(point.lat, point.lon, state, rs)
         IN  /\ Observe("slope", run, rs)
             /\ IF run.raised
                THEN ExceptBranch
                ELSE /\ result' = [result EXCEPT !.slope = Some(run.val)]
                     /\ risk_result' = risk_result
                     /\ pc' = "road"
    /\ UNCHANGED <<point, state, city, ai_record, aggVars, sideVars>>

\* analyze_property lines 90-93
CheckRoadAccess ==
    /\ pc = "road"
    /\ \E rs \in RowRoadRuns :
         LET run == check_road_access(point.lat, point.lon, 200, rs)
         IN  /\ Observe("road_access", run, rs)
             /\ IF run.raised
                THEN ExceptBranch
                ELSE /\ result' = [result EXCEPT
                                      !.road_access = Some(run.val),
                                      !.landlocked = Some(~run.val.has_access)]
                     /\ risk_result' = risk_result
                     /\ pc' = "protected"
    /\ UNCHANGED <<point, state, city, ai_record, aggVars, sideVars>>

\* analyze_property lines 94-120, then main.py lines 326-355
CheckProtectedLand ==
    /\ pc = "protected"
    /\ \E rs \in RowProtRuns :
         LET run == check_protected_land(point.lat, point.lon, rs)
             overall_risk == _calculate_overall_risk(
                                 Val(result.wetlands), Val(result.flood_zone),
                                 Val(result.slope), Val(result.road_access),
                                 Val(result.landlocked), run.val)
             risk_analysis == [result EXCEPT
                                  !.protected_land = Some(run.val),
                                  !.overall_risk = overall_risk]
         IN  /\ Observe("protected_land", run, rs)
             /\ IF run.raised
                THEN ExceptBranch
                ELSE /\ result' = risk_analysis
                     /\ risk_result' = Some(RiskResultOf(risk_analysis))
                     /\ pc' = "stored"
    /\ UNCHANGED <<point, state, city, ai_record, aggVars, sideVars>>

-----------------------------------------------------------------------------
(* AI analysis of a stored property: process_single_property_ai.  The      *)
(* imagery and vision services are collaborators: they raise, or return a  *)
(* road_condition judgment (None when no image could be analysed).         *)

RoadTypes == {"PAVED", "DIRT", "GRAVEL", "POOR", "UNKNOWN"}

VisionConfidences == {59, 60, 75}

VisionJudgments ==
    {None} \cup {Some([type |-> t, confidence |-> c]) :
                    t \in RoadTypes, c \in VisionConfidences}

\* the override written to the row without re-aggregating the overall risk
ApplyOverride_NoReaggregation(rr, override_check) ==
    [rr EXCEPT !.road_access = override_check.new_road_access,
               !.road_distance_meters = override_check.new_road_distance,
               !.road_source = "AI Override",
               !.landlocked = ~override_check.new_road_access]

\* main.py lines 1150-1173
ApplyOverride(rr, override_check) ==
    LET r1 == [rr EXCEPT !.road_access = override_check.new_road_access,
                         !.road_distance_meters = override_check.new_road_distance,
                         !.road_source = "AI Override",
                         !.landlocked = ~override_check.new_road_access]
        updated_risk == _calculate_overall_risk(
            [status |-> r1.wetlands_status, confidence |-> "HIGH"],
            [severity |-> r1.flood_severity, confidence |-> "HIGH"],
            [severity |-> r1.slope_severity, confidence |-> "HIGH"],
            [has_access |-> r1.road_access, confidence |-> "HIGH"],
            r1.landlocked,
            [is_protected |-> r1.protected_land, confidence |-> "HIGH"])
    IN  [r1 EXCEPT !.overall_risk = updated_risk]

\* main.py lines 1067-1221
ProcessSinglePropertyAI ==
    /\ pc = "stored"
    /\ HasCoords
    /\ IsNone(ai_record)
    /\ \E road_condition \in VisionJudgments :
         LET rr == Val(risk_result)
             override_check == check_and_determine_road_access_override(
                                   road_condition, rr.road_access,
                                   rr.road_distance_meters)
         IN  risk_result' =
                 IF ~IsNone(road_condition) /\ override_check.should_override
                 THEN Some(ApplyOverride(rr, override_check))
                 ELSE risk_result
    /\ ai_record' = Some([error_message |-> "NONE"])
    /\ UNCHANGED <<pc, point, state, city, result, calls, answers, hardFailed,
                   aggVars, sideVars>>

\* main.py lines 1223-1240: any exception rolls the session back and an
\* error record is stored
ProcessSinglePropertyAIError ==
    /\ pc = "stored"
    /\ HasCoords
    /\ IsNone(ai_record)
    /\ ai_record' = Some([error_message |-> "error"])
    /\ UNCHANGED <<pc, point, state, city, result, calls, answers, hardFailed,
                   risk_result, aggVars, sideVars>>

Next ==
    \/ CheckWetlands
    \/ CheckFloodZone
    \/ CheckSlope
    \/ CheckRoadAccess
    \/ CheckProtectedLand
    \/ ProcessSinglePropertyAI
    \/ ProcessSinglePropertyAIError

Spec == Init /\ [][Next]_vars

-----------------------------------------------------------------------------
(* One probe called on a GeoPoint with optional hints, under every         *)
(* combination of provider answers                                         *)

ProbeStateHints == {None, Some(Str_fl), Some(Str_FL), Some(Str_TX)}

ProbeCityHints == {None, Some(Str_Leesburg), Some(Str_Ocala)}

InitProbes ==
    /\ pc = "probe"
    /\ point \in GeoPoints
    /\ state \in ProbeStateHints
    /\ city \in ProbeCityHints
    /\ result = EmptyResult
    /\ calls = <<>>
    /\ answers = <<>>
    /\ hardFailed = {}
    /\ risk_result = None
    /\ ai_record = None
    /\ aggIn = None
    /\ aggOut = None
    /\ SideIdle

\* a direct call of one probe: its return value, or the exception it raised
ProbeCall(probe, run, rs) ==
    /\ Observe(probe, run, rs)
    /\ IF run.raised
       THEN /\ result' = result
            /\ pc' = "raised"
       ELSE /\ result' = [result EXCEPT ![probe] = Some(run.val)]
            /\ pc' = "returned"

ProbeWetlands ==
    /\ pc = "probe"
    /\ \E rs \in WetlandsRuns :
         ProbeCall("wetlands", check_wetlands(point.lat, point.lon, state, rs), rs)
    /\ UNCHANGED <<point, state, city, risk_result, ai_record, aggVars, sideVars>>

ProbeFloodZone ==
    /\ pc = "probe"
    /\ \E rs \in FloodRuns :
         ProbeCall("flood_zone",
                   check_flood_zone(point.lat, point.lon, city, state, rs), rs)
    /\ UNCHANGED <<point, state, city, risk_result, ai_record, aggVars, sideVars>>

ProbeSlope ==
    /\ pc = "probe"
    /\ \E rs \in SlopeRuns :
         ProbeCall("slope", check_slope(point.lat, point.lon, state, rs), rs)
    /\ UNCHANGED <<point, state, city, risk_result, ai_record, aggVars, sideVars>>

ProbeRoadAccess ==
    /\ pc = "probe"
    /\ \E rs \in RoadRuns :
         ProbeCall("road_access",
                   check_road_access(point.lat, point.lon, 200, rs), rs)
    /\ UNCHANGED <<point, state, city, risk_result, ai_record, aggVars, sideVars>>

ProbeProtectedLand ==
    /\ pc = "probe"
    /\ \E rs \in ProtRuns :
         ProbeCall("protected_land",
                   check_protected_land(point.lat, point.lon, rs), rs)
    /\ UNCHANGED <<point, state, city, risk_result, ai_record, aggVars, sideVars>>

NextProbes ==
    \/ ProbeWetlands
    \/ ProbeFloodZone
    \/ ProbeSlope
    \/ ProbeRoadAccess
    \/ ProbeProtectedLand

SpecProbes == InitProbes /\ [][NextProbes]_vars

-----------------------------------------------------------------------------
(* Direct calls of the aggregator on arbitrary arguments *)

Severities == {"LOW", "MEDIUM", "HIGH", "UNKNOWN"}

Confidences == {"HIGH", "MEDIUM", "LOW"}

AggInputs ==
    [wetlands : [status : BOOLEAN, confidence : Confidences],
     flood_zone : [severity : Severities, confidence : Confidences],
     slope : [severity : Severities],
     road_access : [has_access : BOOLEAN],
     landlocked : BOOLEAN,
     protected_land : [is_protected : BOOLEAN]]

InitAgg ==
    /\ Idle
    /\ SideIdle
    /\ aggIn \in {Some(a) : a \in AggInputs}
    /\ aggOut = None

\* a caller evaluates _calculate_overall_risk(...); its own landlocked value
\* is what it passed (a bool argument is not changed by the callee)
CallAggregator ==
    /\ ~IsNone(aggIn)
    /\ IsNone(aggOut)
    /\ LET a == Val(aggIn)
           run == AggregatorRun(a.wetlands, a.flood_zone, a.slope,
                                a.road_access, a.landlocked, a.protected_land)
       IN  aggOut' = Some([risk_level |-> run.risk_level,
                           landlocked |-> a.landlocked,
                           corrected |-> run.corrected])
    /\ UNCHANGED <<aggIn, pipelineVars, sideVars>>

NextAgg == CallAggregator

SpecAgg == InitAgg /\ [][NextAgg]_vars

-----------------------------------------------------------------------------
(* Properties of the aggregator (checked under SpecAgg) *)

AggCalled == ~IsNone(aggIn) /\ ~IsNone(aggOut)

\* the unknown-penalty counter of an argument tuple, counted condition by
\* condition
PenaltyCount(a) ==
    Cardinality({ c \in {"wetlands_conf", "flood_unknown", "flood_conf", "slope_unknown"} :
        \/ c = "wetlands_conf" /\ a.wetlands.confidence # "HIGH"
        \/ c = "flood_unknown" /\ a.flood_zone.severity = "UNKNOWN"
        \/ c = "flood_conf" /\ a.flood_zone.confidence # "HIGH"
        \/ c = "slope_unknown" /\ a.slope.severity = "UNKNOWN" })

\* the point total of an argument tuple, factor by factor
PointTotal(a) ==
    LET w == IF a.wetlands.status THEN 2 ELSE 0
        f == IF a.flood_zone.severity = "MEDIUM" THEN 2 ELSE 0
        s == CASE a.slope.severity = "HIGH" -> 2
               [] a.slope.severity = "MEDIUM" -> 1
               [] OTHER -> 0
        p == IF a.protected_land.is_protected THEN 2 ELSE 0
    IN  w + f + s + p

HardDisqualified(a) ==
    \/ a.flood_zone.severity = "HIGH"
    \/ a.landlocked
    \/ ~a.road_access.has_access

\* C1: whenever flood severity is HIGH, or landlocked is true, or
\* road_access.has_access is false, _calculate_overall_risk returns HIGH,
\* whatever the other inputs are (also with 3 or more unknown-penalties).
C1_HardDisqualifierPrecedence ==
    AggCalled /\ HardDisqualified(Val(aggIn))
        => Val(aggOut).risk_level = "HIGH"

\* a disqualified call whose other inputs accumulate 3 unknown-penalties
C1_Witness ==
    /\ AggCalled
    /\ ~Val(aggIn).road_access.has_access
    /\ ~Val(aggIn).landlocked
    /\ Val(aggIn).flood_zone.severity # "HIGH"
    /\ PenaltyCount(Val(aggIn)) >= 3
    /\ Val(aggOut).risk_level = "HIGH"

\* C2: when no hard disqualifier fires and the unknown-penalty counter is 3
\* or more, _calculate_overall_risk returns UNKNOWN for every point total.
C2_UnknownOverride ==
    AggCalled /\ ~HardDisqualified(Val(aggIn)) /\ PenaltyCount(Val(aggIn)) >= 3
        => Val(aggOut).risk_level = "UNKNOWN"

\* three penalties together with a point total of 5 or more
C2_Witness ==
    /\ AggCalled
    /\ ~HardDisqualified(Val(aggIn))
    /\ PenaltyCount(Val(aggIn)) >= 3
    /\ PointTotal(Val(aggIn)) >= 5
    /\ Val(aggOut).risk_level = "UNKNOWN"

\* C3: when no hard disqualifier fires and fewer than 3 unknown-penalties
\* accrue, the result is HIGH iff points >= 5, MEDIUM iff 3 <= points < 5
\* and LOW iff points < 3.
C3_PointClassification ==
    AggCalled /\ ~HardDisqualified(Val(aggIn)) /\ PenaltyCount(Val(aggIn)) < 3
        => LET points == PointTotal(Val(aggIn))
               level == Val(aggOut).risk_level
           IN  /\ level = "HIGH" <=> points >= 5
               /\ level = "MEDIUM" <=> (3 <= points /\ points < 5)
               /\ level = "LOW" <=> points < 3

\* wetlands (+2), flood MEDIUM (+2), slope MEDIUM (+1): exactly 5 points
C3_Witness ==
    /\ AggCalled
    /\ ~HardDisqualified(Val(aggIn))
    /\ PenaltyCount(Val(aggIn)) < 3
    /\ Val(aggIn).wetlands.status
    /\ Val(aggIn).flood_zone.severity = "MEDIUM"
    /\ Val(aggIn).slope.severity = "MEDIUM"
    /\ ~Val(aggIn).protected_land.is_protected
    /\ Val(aggOut).risk_level = "HIGH"

\* C5: given has_access = true and landlocked = true (flood severity not
\* HIGH), the aggregator corrects landlocked to false and continues with
\* point accumulation, so landlocked = NOT has_access holds afterwards.
C5_ConsistencyCorrection ==
    /\ AggCalled
    /\ Val(aggIn).road_access.has_access
    /\ Val(aggIn).landlocked
    /\ Val(aggIn).flood_zone.severity # "HIGH"
    => /\ Val(aggOut).corrected
       /\ Val(aggOut).landlocked = ~Val(aggIn).road_access.has_access
       /\ Val(aggOut).risk_level =
              IF PenaltyCount(Val(aggIn)) >= 3 THEN "UNKNOWN"
              ELSE IF PointTotal(Val(aggIn)) >= 5 THEN "HIGH"
              ELSE IF PointTotal(Val(aggIn)) >= 3 THEN "MEDIUM"
              ELSE "LOW"

-----------------------------------------------------------------------------
(* Properties of the probes (checked under SpecProbes) *)

ProbeNames == {"wetlands", "flood_zone", "slope", "road_access", "protected_land"}

\* the probe that was called, once it returned
Returned(probe) == pc = "returned" /\ ~IsNone(result[probe])

PrimaryField(probe) ==
    CASE probe = "wetlands" -> "status"
      [] probe = "flood_zone" -> "zone"
      [] probe = "slope" -> "percentage"
      [] probe = "road_access" -> "has_access"
      [] probe = "protected_land" -> "is_protected"

FallbackSources ==
    { "Unable to verify (API unavailable)",
      "Geographic estimate (coastal area)",
      "Geographic estimate (inland FL)",
      "Data unavailable",
      "Unable to calculate (API unavailable)",
      "Assumed accessible (verification unavailable)" }

\* the endpoint a probe queries last
LastTier(probe) ==
    CASE probe = "wetlands" -> "USFWS"
      [] probe = "flood_zone" -> "FEMA_NFHL"
      [] probe = "slope" -> "OpenElevation"
      [] probe = "road_access" -> "Overpass"
      [] probe = "protected_land" -> "PADUS"

\* C7 as stated: a result with confidence LOW is returned only when every
\* provider tier of that probe failed.
C7_LowOnlyWhenEveryTierFailed ==
    \A probe \in ProbeNames :
        Returned(probe) /\ Val(result[probe]).confidence = "LOW"
            => probe \in hardFailed

\* C7 (amended): a result with confidence LOW is returned only on the
\* heuristic/fallback path, after every provider tier was queried and none
\* produced a usable match; a result built from a provider's match does not
\* have confidence LOW.
C7_LowOnlyOnFallbackPath ==
    \A probe \in ProbeNames :
        Returned(probe) =>
            LET r == Val(result[probe])
            IN  /\ r.confidence = "LOW" =>
                     /\ r.source \in FallbackSources
                     /\ calls # <<>>
                     /\ calls[Len(calls)] = LastTier(probe)
                /\ r.source \notin FallbackSources
                     /\ r.source \notin {"Geographic heuristic (SW Florida wetlands zone)",
                                         "Geographic estimate (Florida is generally flat)"}
                     => r.confidence = "HIGH"

\* the flood probe fell back to its LOW-confidence estimate although a
\* provider had answered (status 200, no features)
C7_Witness ==
    /\ Returned("flood_zone")
    /\ Val(result.flood_zone).confidence = "LOW"
    /\ "flood_zone" \notin hardFailed
    /\ answers[1].kind = "nodata"

-----------------------------------------------------------------------------
(* Properties of ingestion and AI override (checked under Spec) *)

Stored == pc = "stored" /\ ~IsNone(risk_result)

\* C4: landlocked = NOT road_access.has_access in every result returned by
\* analyze_property and in every stored RiskResult, before and after AI
\* road-access overrides.
C4_LandlockedIsInverseOfAccess ==
    /\ ~IsNone(result.landlocked) /\ ~IsNone(result.road_access)
         => Val(result.landlocked) = ~Val(result.road_access).has_access
    /\ Stored => Val(risk_result).landlocked = ~Val(risk_result).road_access

\* C8: when the road-data provider answers successfully and reports no
\* road-tagged way within the search radius, check_road_access reports
\* has_access = false, so that analyze_property reports landlocked = true
\* and overall risk HIGH.
C8_NoRoadsMeansLandlocked ==
    [][ (pc = "protected" /\ answers = <<[kind |-> "nodata"]>> /\ pc' = "stored")
          => /\ ~Val(result.road_access).has_access
             /\ Val(result'.landlocked)
             /\ result'.overall_risk = "HIGH" ]_vars

\* C9: if every one of the five probes returned its fallback result because
\* all of its providers failed, the overall risk is never LOW or MEDIUM.
C9_AllFallbackNeverLowOrMedium ==
    (Stored /\ hardFailed = ProbeNames /\ result.error = "NONE")
        => result.overall_risk \notin {"LOW", "MEDIUM"}

\* C10: the overall risk stored after an override equals
\* _calculate_overall_risk applied to the original wetlands, flood, slope and
\* protected-land results with only road access and landlocked replaced by
\* the override values.
C10_ReaggregationOnSameFacts ==
    (Stored /\ Val(risk_result).road_source = "AI Override")
        => Val(risk_result).overall_risk =
              _calculate_overall_risk(
                  Val(result.wetlands), Val(result.flood_zone),
                  Val(result.slope),
                  [has_access |-> Val(risk_result).road_access],
                  Val(risk_result).landlocked,
                  Val(result.protected_land))

-----------------------------------------------------------------------------
(* Direct calls of the road-access override policy on arbitrary arguments  *)

\* gis_road_distance values around the 100 m limit of the third case
OverrideDistances == {0, 100, 101, 250}

OverrideInputs ==
    [road_condition : VisionJudgments,
     gis_road_access : BOOLEAN,
     gis_road_distance : OverrideDistances]

InitOverride ==
    /\ Idle
    /\ aggIn = None
    /\ aggOut = None
    /\ ovIn \in {Some(a) : a \in OverrideInputs}
    /\ ovOut = None
    /\ ai = <<>>
    /\ ai_rows = <<>>
    /\ overrides = 0
    /\ geo = <<>>
    /\ now = 0
    /\ stored_rows = {}
    /\ processed_rows = 0
    /\ LateIdle

CallOverride ==
    /\ ~IsNone(ovIn)
    /\ IsNone(ovOut)
    /\ LET a == Val(ovIn)
       IN  ovOut' = Some(check_and_determine_road_access_override(
                             a.road_condition, a.gis_road_access,
                             a.gis_road_distance))
    /\ UNCHANGED <<ovIn, pipelineVars, aggVars, aiVars, geoVars, lateVars>>

\* the values an override wrote to the RiskResult (main.py lines 1152-1153)
\* are what a later call for the row reads as the GIS facts (lines 1144-1148)
CallOverrideAgain ==
    /\ ~IsNone(ovOut)
    /\ IsNone(ovAgain)
    /\ ovAgain' = Some(check_and_determine_road_access_override(
                           Val(ovIn).road_condition,
                           Val(ovOut).new_road_access,
                           Val(ovOut).new_road_distance))
    /\ UNCHANGED <<pipelineVars, aggVars, overrideVars, aiVars, geoVars,
                   classifyVars, pairVars, uploadVars>>

NextOverride ==
    \/ CallOverride
    \/ CallOverrideAgain

SpecOverride == InitOverride /\ [][NextOverride]_vars

-----------------------------------------------------------------------------
(* Properties of the override policy (checked under SpecOverride) *)

OverrideCalled == ~IsNone(ovIn) /\ ~IsNone(ovOut)

\* the vision judgment is present and its confidence is at least 0.6
Confident(a) ==
    /\ ~IsNone(a.road_condition)
    /\ Val(a.road_condition).confidence >= 60

JudgedType(a) == Val(a.road_condition).type

UnpavedCase(a) ==
    Confident(a) /\ JudgedType(a) \in {"DIRT", "GRAVEL"} /\ ~a.gis_road_access

PavedCase(a) ==
    Confident(a) /\ JudgedType(a) = "PAVED" /\ ~a.gis_road_access

UnconfirmedCase(a) ==
    /\ Confident(a)
    /\ JudgedType(a) = "UNKNOWN"
    /\ a.gis_road_access
    /\ a.gis_road_distance > 100

\* C12: the override fires only when the judgment has confidence >= 0.6 and
\* one of the three cases matches; on every other input should_override is
\* false and new_road_access, new_road_distance equal the GIS inputs.
C12_OverrideOnlyInThreeCases ==
    OverrideCalled =>
        LET a == Val(ovIn)
            o == Val(ovOut)
        IN  /\ o.should_override <=>
                  (UnpavedCase(a) \/ PavedCase(a) \/ UnconfirmedCase(a))
            /\ ~o.should_override =>
                  /\ o.new_road_access = a.gis_road_access
                  /\ o.new_road_distance = a.gis_road_distance

\* a PAVED judgment just below the threshold against GIS no-access: no
\* override, the GIS values stand
C12_Witness ==
    /\ OverrideCalled
    /\ Val(ovIn).road_condition = Some([type |-> "PAVED", confidence |-> 59])
    /\ ~Val(ovIn).gis_road_access
    /\ Val(ovIn).gis_road_distance = 250
    /\ ~Val(ovOut).should_override
    /\ ~Val(ovOut).new_road_access
    /\ Val(ovOut).new_road_distance = 250

\* C13: with confidence >= 0.6, DIRT or GRAVEL against GIS no-access gives
\* access true at 50 m; PAVED against GIS no-access gives access true at
\* 30 m; UNKNOWN against GIS access farther than 100 m gives access false
\* and the GIS distance; UNKNOWN at exactly 100 m does not fire.
C13_OverrideOutcomes ==
    OverrideCalled =>
        LET a == Val(ovIn)
            o == Val(ovOut)
        IN  /\ UnpavedCase(a) =>
                  o.should_override /\ o.new_road_access /\ o.new_road_distance = 50
            /\ PavedCase(a) =>
                  o.should_override /\ o.new_road_access /\ o.new_road_distance = 30
            /\ UnconfirmedCase(a) =>
                  /\ o.should_override
                  /\ ~o.new_road_access
                  /\ o.new_road_distance = a.gis_road_distance
            /\ (/\ Confident(a)
                /\ JudgedType(a) = "UNKNOWN"
                /\ a.gis_road_access
                /\ a.gis_road_distance = 100) => ~o.should_override

\* an UNKNOWN judgment at the threshold confidence against GIS access at
\* 101 m: access withdrawn, distance kept
C13_Witness ==
    /\ OverrideCalled
    /\ Val(ovIn).road_condition = Some([type |-> "UNKNOWN", confidence |-> 60])
    /\ Val(ovIn).gis_road_access
    /\ Val(ovIn).gis_road_distance = 101
    /\ Val(ovOut).should_override
    /\ ~Val(ovOut).new_road_access
    /\ Val(ovOut).new_road_distance = 101

-----------------------------------------------------------------------------
(* Properties of the AI override of a stored property (checked under Spec) *)

\* the points of the factors other than road access, read off a stored row
StoredPoints(rr) ==
      (IF rr.wetlands_status THEN 2 ELSE 0)
    + (IF rr.flood_severity = "MEDIUM" THEN 2 ELSE 0)
    + (IF rr.slope_severity = "HIGH" THEN 2
       ELSE IF rr.slope_severity = "MEDIUM" THEN 1 ELSE 0)
    + (IF rr.protected_land THEN 2 ELSE 0)

PointLevel(points) ==
    IF points >= 5 THEN "HIGH" ELSE IF points >= 3 THEN "MEDIUM" ELSE "LOW"

\* C14: for a stored property with road access false (overall HIGH through
\* the landlocked disqualifier) and flood severity not HIGH, once an
\* access-granting override fires in process_single_property_ai the stored
\* landlocked is false and the stored overall risk is the point-based
\* classification of the remaining factors.
C14_OverrideFlipsDisqualifier ==
    [][ (/\ pc = "stored"
         /\ ~IsNone(risk_result)
         /\ ~Val(risk_result).road_access
         /\ Val(risk_result).overall_risk = "HIGH"
         /\ Val(risk_result).flood_severity # "HIGH"
         /\ IsNone(ai_record)
         /\ ~IsNone(ai_record')
         /\ Val(risk_result').road_access)
          => /\ ~Val(risk_result').landlocked
             /\ Val(risk_result').overall_risk =
                    PointLevel(StoredPoints(Val(risk_result))) ]_vars

\* a property stored without road access whose flood severity is not HIGH,
\* after the override granted access: no longer landlocked, no longer HIGH
C14_Witness ==
    /\ Stored
    /\ ~Val(result.road_access).has_access
    /\ Val(result.flood_zone).severity # "HIGH"
    /\ result.overall_risk = "HIGH"
    /\ Val(risk_result).road_source = "AI Override"
    /\ Val(risk_result).road_access
    /\ ~Val(risk_result).landlocked
    /\ Val(risk_result).overall_risk \in {"LOW", "MEDIUM"}

\* C20: when the road-data provider call fails entirely (exception, timeout
\* or non-200 status), check_road_access returns has_access = true,
\* distance_meters = 0 and confidence LOW, so that analyze_property reports
\* landlocked = false.
C20_RoadAccessFailOpen ==
    (/\ pc \in {"protected", "stored"}
     /\ "road_access" \in hardFailed
     /\ result.error = "NONE")
        => /\ Val(result.road_access).has_access
           /\ Val(result.road_access).distance_meters = 0
           /\ Val(result.road_access).confidence = "LOW"
           /\ Val(result.landlocked) = FALSE

\* an analysis returned after the Overpass request timed out
C20_Witness ==
    /\ Stored
    /\ "road_access" \in hardFailed
    /\ Val(result.road_access).has_access
    /\ Val(result.road_access).source = "Assumed accessible (verification unavailable)"
    /\ Val(result.landlocked) = FALSE
    /\ ~Val(risk_result).landlocked

-----------------------------------------------------------------------------
(* Properties of the fallback chains (checked under SpecProbes) *)

\* a response that is a failure or a malformed payload (status 200 without
\* the feature list)
Unavailable(r) == IsFail(r) \/ r.kind = "nolist"

\* the answer of the tier a probe queried last (the Open-Elevation answer,
\* or the last USGS answer when the probe returned from its first tier)
LastAnswer(probe) ==
    IF probe = "slope"
    THEN IF calls[Len(calls)] = "OpenElevation" THEN answers[2]
         ELSE answers[1][Len(calls)]
    ELSE answers[Len(calls)]

HeuristicSources ==
    FallbackSources \cup {"Geographic heuristic (SW Florida wetlands zone)",
                          "Geographic estimate (Florida is generally flat)"}

\* C15: a provider response that is a network error, a timeout, a non-2xx
\* status or a malformed payload (a 200 body without a feature list) makes
\* the probe advance to its next tier; it is never reported as a
\* HIGH-confidence result.
C15_ProviderFailureRecovery ==
    \A probe \in ProbeNames :
        (Returned(probe) /\ Unavailable(LastAnswer(probe)))
            => /\ Val(result[probe]).confidence # "HIGH"
               /\ Val(result[probe]).source \in HeuristicSources

\* C16: in check_wetlands and check_protected_land a successful provider
\* response with zero intersecting features returns the negative result
\* with confidence HIGH at once; no later tier or heuristic is consulted.
C16_AuthoritativeNegativesShortCircuit ==
    /\ (Returned("wetlands") /\ answers[1].kind = "nodata")
          => /\ ~Val(result.wetlands).status
             /\ Val(result.wetlands).confidence = "HIGH"
             /\ Val(result.wetlands).source = "ESRI Living Atlas (USFWS NWI)"
             /\ calls = <<"ESRI_Wetlands">>
    /\ (Returned("wetlands") /\ Len(calls) = 2 /\ answers[2].kind = "nodata")
          => /\ ~Val(result.wetlands).status
             /\ Val(result.wetlands).confidence = "HIGH"
             /\ Val(result.wetlands).source = "USFWS NWI Direct"
    /\ (Returned("protected_land") /\ answers[1].kind = "nodata")
          => /\ ~Val(result.protected_land).is_protected
             /\ Val(result.protected_land).confidence = "HIGH"
             /\ Val(result.protected_land).source = "PAD-US"
             /\ calls = <<"PADUS">>

\* the first wetlands provider found nothing at a point where the Florida
\* heuristic would have reported wetlands: the negative stands, one request
C16_Witness ==
    /\ Returned("wetlands")
    /\ answers[1].kind = "nodata"
    /\ point = [lat |-> Some(265), lon |-> Some(-815)]
    /\ state = Some(Str_FL)
    /\ ~Val(result.wetlands).status
    /\ Val(result.wetlands).confidence = "HIGH"
    /\ calls = <<"ESRI_Wetlands">>

-----------------------------------------------------------------------------
(* AI analysis of one stored property by concurrently running              *)
(* process_single_property_ai calls.  trigger_ai_analysis queues           *)
(* process_ai_analysis on every request (main.py line 1006), so two tasks  *)
(* may submit the same property to their thread pools at the same time.    *)

AIWorkers == {1, 2}

\* the analysis of a row whose nearest road is d metres away
AIStartAnalysis(pt, st, cty, d) ==
    LET w == check_wetlands(pt.lat, pt.lon, st, <<[kind |-> "nodata"], NQ>>).val
        f == check_flood_zone(pt.lat, pt.lon, cty, st,
                 <<[kind |-> "data", zone |-> Some(Str_X), subty |-> Some(<<>>),
                    sfha |-> "F"], NQ, NQ>>).val
        sl == check_slope(pt.lat, pt.lon, st,
                 <<(<<[kind |-> "data", elev |-> 0], [kind |-> "data", elev |-> 0],
                      [kind |-> "data", elev |-> 0]>>), NQ>>).val
        r == check_road_access(pt.lat, pt.lon, 200,
                 <<[kind |-> "data",
                    elements |-> <<[shape |-> "center", dist |-> d]>>]>>).val
        landlocked == ~r.has_access
        p == check_protected_land(pt.lat, pt.lon, <<[kind |-> "nodata"]>>).val
    IN  [wetlands |-> Some(w), flood_zone |-> Some(f), slope |-> Some(sl),
         road_access |-> Some(r), landlocked |-> Some(landlocked),
         protected_land |-> Some(p),
         overall_risk |-> _calculate_overall_risk(w, f, sl, r, landlocked, p),
         error |-> "NONE"]

\* the stored properties the AI run starts from: geocoded rows at three road
\* distances, and a row stored without coordinates
AIStarts ==
    { [point |-> [lat |-> Some(265), lon |-> Some(-800)],
       state |-> Some(Str_TX),
       result |-> AIStartAnalysis([lat |-> Some(265), lon |-> Some(-800)],
                                  Some(Str_TX), Some(Str_Leesburg), d)] :
         d \in RoadDists }
    \cup { [point |-> NoCoords, state |-> Some(Str_fl), result |-> ErrorResult] }

AILocals == [pc |-> "start", road_condition |-> None, pending |-> None]

InitAI ==
    /\ pc = "stored"
    /\ \E s \in AIStarts :
         /\ point = s.point
         /\ state = s.state
         /\ result = s.result
         /\ risk_result = Some(RiskResultOf(s.result))
    /\ city = Some(Str_Leesburg)
    /\ calls = <<>>
    /\ answers = <<>>
    /\ hardFailed = {}
    /\ ai_record = None
    /\ aggIn = None
    /\ aggOut = None
    /\ ovIn = None
    /\ ovOut = None
    /\ ai = [w \in AIWorkers |-> AILocals]
    /\ ai_rows = <<>>
    /\ overrides = 0
    /\ geo = <<>>
    /\ now = 0
    /\ stored_rows = {}
    /\ processed_rows = 0
    /\ LateIdle

AIFrame == UNCHANGED <<pc, point, state, city, result, calls, answers, hardFailed,
                       ai_record, aggVars, overrideVars, geoVars, lateVars>>

\* main.py lines 1074-1087: no coordinates, or an AIAnalysisResult exists
AICheckExisting(w) ==
    /\ ai[w].pc = "start"
    /\ ai' = [ai EXCEPT ![w].pc =
                 IF ~HasCoords THEN "done"
                 ELSE IF ai_rows # <<>> THEN "done"
                 ELSE "analyse"]
    /\ UNCHANGED <<risk_result, ai_rows, overrides>>
    /\ AIFrame

\* main.py lines 1093-1135: imagery and vision analysis
AIAnalyse(w) ==
    /\ ai[w].pc = "analyse"
    /\ \E road_condition \in VisionJudgments :
         ai' = [ai EXCEPT ![w].pc = "query",
                          ![w].road_condition = road_condition]
    /\ UNCHANGED <<risk_result, ai_rows, overrides>>
    /\ AIFrame

\* main.py lines 1138-1181: read the RiskResult, decide, update it in the
\* worker's own session
AIQuery(w) ==
    /\ ai[w].pc = "query"
    /\ LET rr == Val(risk_result)
           road_condition == ai[w].road_condition
           override_check == check_and_determine_road_access_override(
                                 road_condition, rr.road_access,
                                 rr.road_distance_meters)
       IN  ai' = [ai EXCEPT
                     ![w].pc = "commit",
                     ![w].pending =
                         IF ~IsNone(road_condition) /\ override_check.should_override
                         THEN Some(ApplyOverride(rr, override_check))
                         ELSE None]
    /\ UNCHANGED <<risk_result, ai_rows, overrides>>
    /\ AIFrame

\* main.py lines 1184-1221: add the AIAnalysisResult and commit the session
AICommit(w) ==
    /\ ai[w].pc = "commit"
    /\ risk_result' = IF IsNone(ai[w].pending) THEN risk_result ELSE ai[w].pending
    /\ overrides' = IF IsNone(ai[w].pending) THEN overrides ELSE overrides + 1
    /\ ai_rows' = Append(ai_rows, [worker |-> w, error_message |-> "NONE"])
    /\ ai' = [ai EXCEPT ![w].pc = "done"]
    /\ AIFrame

\* main.py lines 1223-1240: the imagery or vision service raised
AIError(w) ==
    /\ ai[w].pc = "analyse"
    /\ ai_rows' = Append(ai_rows, [worker |-> w, error_message |-> "error"])
    /\ ai' = [ai EXCEPT ![w].pc = "done"]
    /\ UNCHANGED <<risk_result, overrides>>
    /\ AIFrame

NextAI ==
    \E w \in AIWorkers :
        \/ AICheckExisting(w)
        \/ AIAnalyse(w)
        \/ AIQuery(w)
        \/ AICommit(w)
        \/ AIError(w)

SpecAI == InitAI /\ [][NextAI]_vars

\* C11: for every property the AI road-access override and the
\* re-aggregation of its overall risk are applied at most once, over any
\* sequence and any interleaving of AI-analysis runs for the same upload.
C11_OverrideAtMostOnce == overrides <= 1

-----------------------------------------------------------------------------
(* Geocoding: geocoding_service.py *)

\* s.split(sep)[0]: the part of s before the first occurrence of sep
RECURSIVE SplitFirst(_, _)
SplitFirst(s, sep) ==
    IF s = <<>> \/ Head(s) = sep THEN <<>>
    ELSE <<Head(s)>> \o SplitFirst(Tail(s), sep)

Str_33971 == <<"3","3","9","7","1">>

Str_33976 == <<"3","3","9","7","6">>

Str_33974 == <<"3","3","9","7","4">>

Str_33972 == <<"3","3","9","7","2">>

Str_33973 == <<"3","3","9","7","3">>

\* _load_zip_coordinates, coordinates rounded to tenths of a degree
zip_coordinates ==
    { [zip |-> Str_33971, lat |-> 266, lon |-> -816],
      [zip |-> Str_33976, lat |-> 266, lon |-> -817],
      [zip |-> Str_33974, lat |-> 267, lon |-> -816],
      [zip |-> Str_33972, lat |-> 266, lon |-> -817],
      [zip |-> Str_33973, lat |-> 266, lon |-> -817] }

\* r.kind: "match" (an address match in the payload), "nomatch" (none),
\* "error" (the request raised, timed out, or raise_for_status raised)
_try_census_geocoding(r) ==
    IF r.kind = "match"
    THEN Some([latitude |-> r.y, longitude |-> r.x,
               accuracy |-> "HIGH", source |-> "US Census Geocoder"])
    ELSE None

\* r.lat, r.lon: the number float() parses, None when the string is not a
\* number (float raises ValueError, which the except clause swallows)
_try_nominatim_geocoding(r) ==
    IF r.kind = "match" /\ ~IsNone(r.lat) /\ ~IsNone(r.lon)
    THEN Some([latitude |-> r.lat, longitude |-> r.lon,
               accuracy |-> "MEDIUM", source |-> "OpenStreetMap Nominatim"])
    ELSE None

_try_zip_approximation(zip_code) ==
    LET zip_clean == Strip(SplitFirst(zip_code, "-"))
    IN  IF \E z \in zip_coordinates : z.zip = zip_clean
        THEN LET z == CHOOSE z \in zip_coordinates : z.zip = zip_clean
             IN  Some([latitude |-> Some(z.lat), longitude |-> Some(z.lon),
                       accuracy |-> "LOW", source |-> "ZIP Code Approximation"])
        ELSE None

\* geocode_address consulting every provider, the last match winning
geocode_next_KeepTrying(step, found) ==
    IF step = "census" THEN "sleep"
    ELSE IF step = "nominatim" THEN "zip"
    ELSE IF ~IsNone(found) THEN "matched"
    ELSE "unmatched"

\* the control flow of geocode_address: where it goes after the provider
\* `step` returned `found`
geocode_next(step, found) ==
    IF ~IsNone(found) THEN "matched"
    ELSE IF step = "census" THEN "sleep"
    ELSE IF step = "nominatim" THEN "zip"
    ELSE "unmatched"

-----------------------------------------------------------------------------
(* Ingestion of a batch: process_properties_sync submits every row to a    *)
(* pool of ten threads; each thread runs process_single_property.          *)

MaxTime == 2         \* seconds of wall clock observed

GeoWorkers == {1, 2}

Zips == { Str_33971,
          Str_33971 \o <<"-","1","2","3","4">>,
          <<"9","0","2","1","0">> }

CensusResp ==
    { [kind |-> "match", y |-> Some(265), x |-> Some(-815)],
      [kind |-> "nomatch"], [kind |-> "error"] }

NominatimResp ==
    { [kind |-> "match", lat |-> Some(265), lon |-> Some(-800)],
      [kind |-> "match", lat |-> None, lon |-> None],
      [kind |-> "nomatch"], [kind |-> "error"] }

GeoLocals(z) ==
    [pc |-> "start", zip |-> z, calls |-> <<>>,
     census |-> NQ, nominatim |-> NQ,
     geocode_result |-> None, wake |-> 0, sent |-> None, success |-> None]

InitGeo ==
    /\ Idle
    /\ aggIn = None
    /\ aggOut = None
    /\ ovIn = None
    /\ ovOut = None
    /\ ai = <<>>
    /\ ai_rows = <<>>
    /\ overrides = 0
    /\ geo \in [GeoWorkers -> {GeoLocals(z) : z \in Zips}]
    /\ now = 0
    /\ stored_rows = {}
    /\ processed_rows = 0
    /\ LateIdle

GeoFrame == UNCHANGED <<pipelineVars, aggVars, overrideVars, aiVars, lateVars>>

\* main.py lines 229-261: a row lacking an address field is given up
GeoValidate(w) ==
    /\ geo[w].pc = "start"
    /\ \E complete \in BOOLEAN :
         geo' = IF complete
                THEN [geo EXCEPT ![w].pc = "census"]
                ELSE [geo EXCEPT ![w].pc = "returned", ![w].success = Some(FALSE)]
    /\ UNCHANGED <<now, stored_rows, processed_rows>>
    /\ GeoFrame

\* geocode_address lines 50-53
GeoCensus(w) ==
    /\ geo[w].pc = "census"
    /\ \E r \in CensusResp :
         LET found == _try_census_geocoding(r)
         IN  geo' = [geo EXCEPT ![w].calls = Append(@, "census"),
                                ![w].census = r,
                                ![w].geocode_result = found,
                                ![w].pc = geocode_next("census", found)]
    /\ UNCHANGED <<now, stored_rows, processed_rows>>
    /\ GeoFrame

\* _try_nominatim_geocoding line 119: time.sleep(1) in the calling thread
GeoSleep(w) ==
    /\ geo[w].pc = "sleep"
    /\ geo' = [geo EXCEPT ![w].wake = now + 1, ![w].pc = "nominatim"]
    /\ UNCHANGED <<now, stored_rows, processed_rows>>
    /\ GeoFrame

\* _try_nominatim_geocoding lines 121-144, geocode_address lines 56-59
GeoNominatim(w) ==
    /\ geo[w].pc = "nominatim"
    /\ now >= geo[w].wake
    /\ \E r \in NominatimResp :
         LET found == _try_nominatim_geocoding(r)
         IN  geo' = [geo EXCEPT ![w].calls = Append(@, "nominatim"),
                                ![w].nominatim = r,
                                ![w].sent = Some(now),
                                ![w].geocode_result = found,
                                ![w].pc = geocode_next("nominatim", found)]
    /\ UNCHANGED <<now, stored_rows, processed_rows>>
    /\ GeoFrame

\* geocode_address lines 62-68
GeoZip(w) ==
    /\ geo[w].pc = "zip"
    /\ LET found == _try_zip_approximation(geo[w].zip)
       IN  geo' = [geo EXCEPT ![w].calls = Append(@, "zip"),
                              ![w].geocode_result = found,
                              ![w].pc = geocode_next("zip", found)]
    /\ UNCHANGED <<now, stored_rows, processed_rows>>
    /\ GeoFrame

\* an unmatched row stored with default coordinates and reported as processed
GeoReturnUnmatched_DefaultCoordinates(w) ==
    /\ geo[w].pc = "unmatched"
    /\ stored_rows' = stored_rows \cup
           {[row |-> w, latitude |-> Some(0), longitude |-> Some(0),
             geocode_accuracy |-> "NONE"]}
    /\ geo' = [geo EXCEPT ![w].pc = "returned", ![w].success = Some(TRUE)]
    /\ UNCHANGED <<now, processed_rows>>
    /\ GeoFrame

\* main.py lines 263-265: geocode_address returned None
GeoReturnUnmatched(w) ==
    /\ geo[w].pc = "unmatched"
    /\ geo' = [geo EXCEPT ![w].pc = "returned", ![w].success = Some(FALSE)]
    /\ UNCHANGED <<now, stored_rows, processed_rows>>
    /\ GeoFrame

\* main.py lines 267-360: the Property and, after the GIS analysis, the
\* RiskResult are committed
GeoStore(w) ==
    /\ geo[w].pc = "matched"
    /\ stored_rows' = stored_rows \cup
           {[row |-> w,
             latitude |-> Val(geo[w].geocode_result).latitude,
             longitude |-> Val(geo[w].geocode_result).longitude,
             geocode_accuracy |-> Val(geo[w].geocode_result).accuracy]}
    /\ geo' = [geo EXCEPT ![w].pc = "returned", ![w].success = Some(TRUE)]
    /\ UNCHANGED <<now, processed_rows>>
    /\ GeoFrame

\* main.py lines 362-365: the database raised; the session is rolled back
GeoStoreError(w) ==
    /\ geo[w].pc = "matched"
    /\ geo' = [geo EXCEPT ![w].pc = "returned", ![w].success = Some(FALSE)]
    /\ UNCHANGED <<now, stored_rows, processed_rows>>
    /\ GeoFrame

\* the submitting thread counting every finished future as processed
Collect_CountEveryFuture(w) ==
    /\ geo[w].pc = "returned"
    /\ processed_rows' = processed_rows + 1
    /\ geo' = [geo EXCEPT ![w].pc = "collected"]
    /\ UNCHANGED <<now, stored_rows>>
    /\ GeoFrame

\* process_properties_sync lines 392-401: the submitting thread collects a
\* finished future
Collect(w) ==
    /\ geo[w].pc = "returned"
    /\ processed_rows' = IF geo[w].success = Some(TRUE)
                         THEN processed_rows + 1 ELSE processed_rows
    /\ geo' = [geo EXCEPT ![w].pc = "collected"]
    /\ UNCHANGED <<now, stored_rows>>
    /\ GeoFrame

\* a second of wall clock passes
Tick ==
    /\ geo # <<>>
    /\ now < MaxTime
    /\ now' = now + 1
    /\ UNCHANGED <<geo, stored_rows, processed_rows>>
    /\ GeoFrame

NextGeo ==
    \/ \E w \in GeoWorkers :
          \/ GeoValidate(w)
          \/ GeoCensus(w)
          \/ GeoSleep(w)
          \/ GeoNominatim(w)
          \/ GeoZip(w)
          \/ GeoReturnUnmatched(w)
          \/ GeoStore(w)
          \/ GeoStoreError(w)
          \/ Collect(w)
    \/ Tick

SpecGeo == InitGeo /\ [][NextGeo]_vars

-----------------------------------------------------------------------------
(* Properties of geocoding and ingestion (checked under SpecGeo) *)

ProviderOrder == <<"census", "nominatim", "zip">>

\* geocode_address has returned for the row of worker w
GeocodeReturned(w) ==
    /\ geo[w].calls # <<>>
    /\ geo[w].pc \in {"matched", "unmatched", "returned", "collected"}

CensusMatched(w) == geo[w].census.kind = "match"

\* the community geocoder answered with a match whose coordinates parse
NominatimMatched(w) ==
    /\ geo[w].nominatim.kind = "match"
    /\ ~IsNone(geo[w].nominatim.lat)
    /\ ~IsNone(geo[w].nominatim.lon)

\* the postal code, cut at the first dash, is a key of the table
ZipListed(w) ==
    LET zip_code == geo[w].zip
    IN  /\ Len(zip_code) >= 5
        /\ Len(zip_code) > 5 => zip_code[6] = "-"
        /\ \E z \in zip_coordinates : z.zip = SubSeq(zip_code, 1, 5)

\* C17: geocode_address tries the national geocoder, then the community
\* geocoder, then the postal-code table; a later provider is invoked only if
\* every earlier one returned no match, and accuracy and source are those
\* of the first provider that matched (HIGH, MEDIUM, LOW).
C17_GeocoderProviderOrder ==
    \A w \in DOMAIN geo :
        LET g == geo[w]
        IN  /\ g.calls = SubSeq(ProviderOrder, 1, Len(g.calls))
            /\ Len(g.calls) >= 2 => ~CensusMatched(w)
            /\ Len(g.calls) = 3 => ~NominatimMatched(w)
            /\ GeocodeReturned(w) =>
                 IF CensusMatched(w)
                 THEN /\ g.calls = <<"census">>
                      /\ Val(g.geocode_result).accuracy = "HIGH"
                      /\ Val(g.geocode_result).source = "US Census Geocoder"
                 ELSE IF NominatimMatched(w)
                 THEN /\ g.calls = <<"census", "nominatim">>
                      /\ Val(g.geocode_result).accuracy = "MEDIUM"
                      /\ Val(g.geocode_result).source = "OpenStreetMap Nominatim"
                 ELSE IF ZipListed(w)
                 THEN /\ g.calls = ProviderOrder
                      /\ Val(g.geocode_result).accuracy = "LOW"
                      /\ Val(g.geocode_result).source = "ZIP Code Approximation"
                 ELSE g.calls = ProviderOrder /\ IsNone(g.geocode_result)

\* the national geocoder failed and the community geocoder matched: its
\* result is returned with accuracy MEDIUM and the table is not consulted
C17_Witness ==
    \E w \in DOMAIN geo :
        /\ GeocodeReturned(w)
        /\ geo[w].census.kind = "error"
        /\ NominatimMatched(w)
        /\ ZipListed(w)
        /\ geo[w].calls = <<"census", "nominatim">>
        /\ Val(geo[w].geocode_result).accuracy = "MEDIUM"

\* C18: geocode_address returns None exactly when all three providers yield
\* no match; process_single_property then stores no Property and no
\* RiskResult for the row, assigns it no coordinates and no risk level, and
\* the row is not counted in processed_rows.
C18_GeocodingExhaustion ==
    /\ \A w \in DOMAIN geo :
         GeocodeReturned(w) =>
            /\ IsNone(geo[w].geocode_result)
                 <=> (~CensusMatched(w) /\ ~NominatimMatched(w) /\ ~ZipListed(w))
            /\ IsNone(geo[w].geocode_result) =>
                 /\ \A r \in stored_rows : r.row # w
                 /\ geo[w].success # Some(TRUE)
    /\ processed_rows =
          Cardinality({w \in DOMAIN geo :
                          /\ geo[w].pc = "collected"
                          /\ geo[w].success = Some(TRUE)
                          /\ ~IsNone(geo[w].geocode_result)})

\* one row exhausted all three providers and one was stored: after both
\* futures were collected, processed_rows counts the stored row only
C18_Witness ==
    /\ geo # <<>>
    /\ \A w \in DOMAIN geo : geo[w].pc = "collected"
    /\ \E w \in DOMAIN geo :
         /\ geo[w].calls = ProviderOrder
         /\ IsNone(geo[w].geocode_result)
         /\ geo[w].success = Some(FALSE)
    /\ Cardinality(stored_rows) = 1
    /\ processed_rows = 1

\* C19: over every interleaving of the batch worker threads, any two
\* requests issued to the community geocoding provider are at least 1
\* second apart.
C19_CommunityGeocoderPacing ==
    \A v, w \in DOMAIN geo :
        (v # w /\ ~IsNone(geo[v].sent) /\ ~IsNone(geo[w].sent))
            => \/ Val(geo[v].sent) - Val(geo[w].sent) >= 1
               \/ Val(geo[w].sent) - Val(geo[v].sent) >= 1

-----------------------------------------------------------------------------
(* Direct calls of _classify_flood_zone on zone codes in either letter     *)
(* case, with and without the special-hazard-area flag                     *)

DigitChars == <<"0","1","2","3","4","5","6","7","8","9">>

\* str(n) for 0 <= n <= 99
NumStr(n) ==
    IF n < 10 THEN <<DigitChars[n + 1]>>
    ELSE <<DigitChars[(n \div 10) + 1], DigitChars[(n % 10) + 1]>>

\* the zone codes the docstring of _classify_flood_zone lists as HIGH RISK:
\* A, AE, AH, AO, A99, AR, V, VE and V1 to V30
HighRiskZoneCodes ==
    { <<"A">>, <<"A","E">>, <<"A","H">>, <<"A","O">>, <<"A","9","9">>,
      <<"A","R">>, <<"V">>, <<"V","E">> }
    \cup { <<"V">> \o NumStr(n) : n \in 1..30 }

\* codes outside that list
OtherZoneCodes ==
    { <<>>, <<"X">>, <<"B">>, <<"C">>, <<"D">>, <<"X","5","0","0">>,
      <<"X"," ","(","S","H","A","D","E","D",")">> }

ClassifyInputs ==
    [zone : { z : z \in HighRiskZoneCodes \cup OtherZoneCodes }
            \cup { Lower(z) : z \in HighRiskZoneCodes \cup OtherZoneCodes },
     sfha : {None, Some("T"), Some("F")}]

InitClassify ==
    /\ Idle
    /\ aggIn = None
    /\ aggOut = None
    /\ ovIn = None
    /\ ovOut = None
    /\ ai = <<>>
    /\ ai_rows = <<>>
    /\ overrides = 0
    /\ geo = <<>>
    /\ now = 0
    /\ stored_rows = {}
    /\ processed_rows = 0
    /\ fzIn \in {Some(a) : a \in ClassifyInputs}
    /\ fzOut = None
    /\ pairIn = None
    /\ pairOut = <<None, None>>
    /\ ovAgain = None
    /\ upload_status = "processing"
    /\ ai_job = [rejected |-> FALSE, queued |-> FALSE]

CallClassify ==
    /\ ~IsNone(fzIn)
    /\ IsNone(fzOut)
    /\ fzOut' = Some(_classify_flood_zone(Val(fzIn).zone, Val(fzIn).sfha))
    /\ UNCHANGED <<fzIn, pipelineVars, aggVars, overrideVars, aiVars, geoVars,
                   pairVars, ovAgain, uploadVars>>

NextClassify == CallClassify

SpecClassify == InitClassify /\ [][NextClassify]_vars

ClassifyCalled == ~IsNone(fzIn) /\ ~IsNone(fzOut)

\* C21: _classify_flood_zone returns HIGH for each of the zone codes A, AE,
\* AH, AO, A99, AR, V, VE and V1 to V30, in any letter case, whether or not
\* the special-hazard-area flag is supplied.
C21_FloodZoneHighSet ==
    ClassifyCalled /\ Upper(Val(fzIn).zone) \in HighRiskZoneCodes
        => Val(fzOut) = "HIGH"

-----------------------------------------------------------------------------
(* Properties of the flood and road probes (checked under SpecProbes) *)

\* check_flood_zone was the probe called and it returned a dict
FloodReturned == pc = "returned" /\ ~IsNone(result.flood_zone)

\* C22: every flood result returned by check_flood_zone with in_sfha = true
\* has severity HIGH, for every zone code string returned by the provider.
C22_HazardFlagForcesHigh ==
    FloodReturned /\ Val(result.flood_zone).in_sfha = "True"
        => Val(result.flood_zone).severity = "HIGH"

\* the first tier answers zone X inside a special hazard area
C22_Witness ==
    /\ FloodReturned
    /\ answers[1].kind = "data"
    /\ answers[1].zone = Some(Str_X)
    /\ answers[1].sfha = "T"
    /\ Val(result.flood_zone).zone = Str_X
    /\ Val(result.flood_zone).in_sfha = "True"
    /\ Val(result.flood_zone).severity = "HIGH"

FloodTiers == <<"ESRI_FEMA", "FEMA_MSC", "FEMA_NFHL">>

FloodTierSources == <<"ESRI Living Atlas (FEMA Data)", "FEMA MSC", "FEMA NFHL">>

\* what the answer to the request of tier i gave the tier: a zone (for the
\* first tier any feature, a missing FLD_ZONE reading as "X"; for the second
\* a result carrying FLD_ZONE; for the third a feature whose FLD_ZONE and
\* ZONE_SUBTY are strings, a null attribute raising inside the tier)
TierYieldedZone(i) ==
    LET r == answers[i]
    IN  /\ r.kind = "data"
        /\ i = 2 => \E k \in 1..Len(r.results) : ~IsNone(r.results[k])
        /\ i = 3 => ~IsNone(r.zone) /\ ~IsNone(r.subty)

SfhaOf(f) ==
    IF f.in_sfha = "True" THEN Some("T")
    ELSE IF f.in_sfha = "False" THEN Some("F")
    ELSE None

\* C28: for every result check_flood_zone returns from a provider tier,
\* severity equals _classify_flood_zone applied to the zone string stored in
\* the result (base zone plus any subtype text) together with the
\* special-hazard flag, so a reported zone carrying a shaded / 0.2-percent
\* marker outside a special hazard area has severity MEDIUM.
C28_SeverityMatchesReportedZone ==
    (FloodReturned /\ \E i \in 1..3 : Val(result.flood_zone).source = FloodTierSources[i])
        => LET f == Val(result.flood_zone)
           IN  f.severity = _classify_flood_zone(f.zone, SfhaOf(f))

\* check_road_access was the probe called and it returned a dict
RoadReturned == pc = "returned" /\ ~IsNone(result.road_access)

\* the distances to the elements of the answer that carry coordinates
ElementDistances ==
    IF answers[1].kind = "data"
    THEN { answers[1].elements[k].dist :
             k \in { i \in 1..Len(answers[1].elements) :
                        answers[1].elements[i].shape # "none" } }
    ELSE {}

-----------------------------------------------------------------------------
(* Further properties of the override policy (checked under SpecOverride) *)

\* C25: for every input to check_and_determine_road_access_override,
\* should_override is true if and only if new_road_access differs from
\* gis_road_access.
C25_OverrideChangesAccessFact ==
    OverrideCalled =>
        (Val(ovOut).should_override
            <=> Val(ovOut).new_road_access # Val(ovIn).gis_road_access)

\* a confident GRAVEL judgment against GIS no-access: the override fires and
\* the access fact turns true
C25_Witness ==
    /\ OverrideCalled
    /\ Val(ovIn).road_condition = Some([type |-> "GRAVEL", confidence |-> 75])
    /\ ~Val(ovIn).gis_road_access
    /\ Val(ovOut).should_override
    /\ Val(ovOut).new_road_access

OverrideCalledAgain == OverrideCalled /\ ~IsNone(ovAgain)

\* C26: feeding the new_road_access and new_road_distance produced by
\* check_and_determine_road_access_override back into it with the same
\* vision judgment never fires a second override.
C26_OverrideIdempotence ==
    OverrideCalledAgain =>
        /\ ~Val(ovAgain).should_override
        /\ Val(ovAgain).new_road_access = Val(ovOut).new_road_access
        /\ Val(ovAgain).new_road_distance = Val(ovOut).new_road_distance

\* an UNKNOWN judgment withdrew access at 250 m; on the withdrawn access the
\* same judgment leaves the row as it is
C26_Witness ==
    /\ OverrideCalledAgain
    /\ Val(ovIn).road_condition = Some([type |-> "UNKNOWN", confidence |-> 75])
    /\ Val(ovIn).gis_road_access
    /\ Val(ovIn).gis_road_distance = 250
    /\ Val(ovOut).should_override
    /\ ~Val(ovOut).new_road_access
    /\ ~Val(ovAgain).should_override
    /\ ~Val(ovAgain).new_road_access
    /\ Val(ovAgain).new_road_distance = 250

-----------------------------------------------------------------------------
(* Two calls of _calculate_overall_risk on the dicts the probes return,    *)
(* alike in every entry the scoring reads                                  *)

\* the entries of the probe dicts that _calculate_overall_risk never reads
UnreadEntries ==
    [road_confidence : {"HIGH", "LOW"},
     road_distance : {0, 250},
     protected_confidence : {"HIGH", "LOW"},
     slope_confidence : {"HIGH", "MEDIUM"},
     source : {"PAD-US", "Error"}]

UnreadBase ==
    { [road_confidence |-> "HIGH", road_distance |-> 0,
       protected_confidence |-> "HIGH", slope_confidence |-> "HIGH",
       source |-> "PAD-US"],
      [road_confidence |-> "LOW", road_distance |-> 250,
       protected_confidence |-> "LOW", slope_confidence |-> "MEDIUM",
       source |-> "Error"] }

\* the arguments of one call: the entries read (a) and those not read (u)
FullArgs(a, u) ==
    [wetlands |-> [status |-> a.wetlands.status,
                   confidence |-> a.wetlands.confidence,
                   source |-> u.source],
     flood_zone |-> [severity |-> a.flood_zone.severity,
                     confidence |-> a.flood_zone.confidence,
                     source |-> u.source],
     slope |-> [severity |-> a.slope.severity,
                confidence |-> u.slope_confidence,
                source |-> u.source],
     road_access |-> [has_access |-> a.road_access.has_access,
                      distance_meters |-> u.road_distance,
                      confidence |-> u.road_confidence,
                      source |-> u.source],
     landlocked |-> a.landlocked,
     protected_land |-> [is_protected |-> a.protected_land.is_protected,
                         confidence |-> u.protected_confidence,
                         source |-> u.source]]

InitAggPair ==
    /\ Idle
    /\ aggIn = None
    /\ aggOut = None
    /\ ovIn = None
    /\ ovOut = None
    /\ ai = <<>>
    /\ ai_rows = <<>>
    /\ overrides = 0
    /\ geo = <<>>
    /\ now = 0
    /\ stored_rows = {}
    /\ processed_rows = 0
    /\ fzIn = None
    /\ fzOut = None
    /\ pairIn \in { Some(<<FullArgs(a, u1), FullArgs(a, u2)>>) :
                      a \in AggInputs, u1 \in UnreadBase, u2 \in UnreadEntries }
    /\ pairOut = <<None, None>>
    /\ ovAgain = None
    /\ upload_status = "processing"
    /\ ai_job = [rejected |-> FALSE, queued |-> FALSE]

\* the call on the i-th tuple of the pair
CallAggregatorOn(i) ==
    /\ ~IsNone(pairIn)
    /\ IsNone(pairOut[i])
    /\ LET a == Val(pairIn)[i]
       IN  pairOut' = [pairOut EXCEPT ![i] =
               Some(_calculate_overall_risk(a.wetlands, a.flood_zone, a.slope,
                                            a.road_access, a.landlocked,
                                            a.protected_land))]
    /\ UNCHANGED <<pairIn, pipelineVars, aggVars, overrideVars, aiVars, geoVars,
                   classifyVars, ovAgain, uploadVars>>

NextAggPair == \E i \in 1..2 : CallAggregatorOn(i)

SpecAggPair == InitAggPair /\ [][NextAggPair]_vars

PairCalled == ~IsNone(pairIn) /\ ~IsNone(pairOut[1]) /\ ~IsNone(pairOut[2])

\* C27: two calls to _calculate_overall_risk whose inputs differ only in
\* road_access confidence, road_access distance, protected_land confidence,
\* slope confidence, or any source/note text return the same risk level.
C27_VerdictIgnoresUnreadFields ==
    PairCalled => Val(pairOut[1]) = Val(pairOut[2])

\* two calls that differ in every unread entry, on facts without a hard
\* disqualifier that score MEDIUM
C27_Witness ==
    /\ PairCalled
    /\ LET x == Val(pairIn)[1]
           y == Val(pairIn)[2]
       IN  /\ x.road_access.confidence # y.road_access.confidence
           /\ x.road_access.distance_meters # y.road_access.distance_meters
           /\ x.protected_land.confidence # y.protected_land.confidence
           /\ x.slope.confidence # y.slope.confidence
           /\ x.wetlands.source # y.wetlands.source
           /\ x.road_access.has_access
           /\ ~x.landlocked
    /\ Val(pairOut[1]) = "MEDIUM"
    /\ Val(pairOut[2]) = "MEDIUM"

-----------------------------------------------------------------------------
(* The life of one upload: process_properties_sync runs the batch and sets *)
(* the final status; trigger_ai_analysis may be requested at any moment    *)
(* and, once it queued process_ai_analysis, the stored rows of the upload  *)
(* are open to the road-access override.                                   *)

MaxOverrides == 2    \* overrides applied to the rows of the upload

\* a batch of two rows: one whose postal code is in the table of the
\* geocoder and one whose postal code is not
InitUpload ==
    /\ InitGeo
    /\ geo[1].zip = Str_33971
    /\ geo[2].zip = <<"9","0","2","1","0">>

\* process_properties_sync lines 406-409, after the pool has shut down:
\* every future was collected
Complete ==
    /\ geo # <<>>
    /\ \A w \in DOMAIN geo : geo[w].pc = "collected"
    /\ upload_status = "processing"
    /\ upload_status' = "completed"
    /\ UNCHANGED <<pipelineVars, aggVars, overrideVars, aiVars, geoVars,
                   classifyVars, pairVars, ovAgain, ai_job>>

\* process_properties_sync lines 413-417: the commit of the final status
\* raised and the except branch stored "failed"
SyncFail ==
    /\ geo # <<>>
    /\ \A w \in DOMAIN geo : geo[w].pc = "collected"
    /\ upload_status = "processing"
    /\ upload_status' = "failed"
    /\ UNCHANGED <<pipelineVars, aggVars, overrideVars, aiVars, geoVars,
                   classifyVars, pairVars, ovAgain, ai_job>>

\* trigger_ai_analysis queueing the task whatever the status of the upload
trigger_ai_analysis_AnyStatus(status) == "queued"

\* trigger_ai_analysis lines 989-1006 for an existing upload: HTTP 400, or
\* process_ai_analysis is queued
trigger_ai_analysis(status) ==
    IF status # "completed" THEN "rejected" ELSE "queued"

\* a request POST /analyze-ai/{job_id} for the upload
TriggerAI ==
    /\ geo # <<>>
    /\ ai_job' = IF trigger_ai_analysis(upload_status) = "queued"
                 THEN [ai_job EXCEPT !.queued = TRUE]
                 ELSE [ai_job EXCEPT !.rejected = TRUE]
    /\ UNCHANGED <<pipelineVars, aggVars, overrideVars, aiVars, geoVars,
                   classifyVars, pairVars, ovAgain, upload_status>>

\* process_ai_analysis lines 1027-1041 and process_single_property_ai lines
\* 1143-1181 for a stored row of the upload: the vision judgment and the
\* road facts of the row are such that the override is applied
UploadAIOverride ==
    /\ ai_job.queued
    /\ stored_rows # {}
    /\ overrides < MaxOverrides
    /\ \E a \in OverrideInputs :
         check_and_determine_road_access_override(
             a.road_condition, a.gis_road_access,
             a.gis_road_distance).should_override
    /\ overrides' = overrides + 1
    /\ UNCHANGED <<pipelineVars, aggVars, overrideVars, ai, ai_rows, geoVars,
                   lateVars>>

NextUpload ==
    \/ NextGeo
    \/ Complete
    \/ SyncFail
    \/ TriggerAI
    \/ UploadAIOverride

SpecUpload == InitUpload /\ [][NextUpload]_vars

\* rows of the batch: Upload.total_rows
TotalRows == Cardinality(DOMAIN geo)

\* rows for which process_single_property returned True
SucceededRows == {w \in DOMAIN geo : geo[w].success = Some(TRUE)}

\* C29: during process_properties_sync, for every interleaving of the worker
\* threads, upload.processed_rows never decreases and never exceeds
\* total_rows, and when the status becomes completed it equals the number of
\* rows for which process_single_property returned True; the status only
\* moves from processing to completed or failed.
C29_UploadProgress ==
    /\ [](processed_rows <= TotalRows)
    /\ [](upload_status = "completed"
             => processed_rows = Cardinality(SucceededRows))
    /\ [][processed_rows' >= processed_rows]_vars
    /\ [][upload_status' # upload_status
             => /\ upload_status = "processing"
                /\ upload_status' \in {"completed", "failed"}]_vars

\* the batch completed with one row stored and one row given up
C29_Witness ==
    /\ upload_status = "completed"
    /\ TotalRows = 2
    /\ Cardinality(SucceededRows) = 1
    /\ processed_rows = 1
    /\ \E w \in DOMAIN geo : geo[w].success = Some(FALSE)

\* C30: trigger_ai_analysis rejects a job whose upload status is not
\* completed, so no road-access override or risk re-aggregation is applied
\* to any RiskResult of an upload while that upload is still in status
\* processing.
C30_AIAfterIngestion ==
    /\ ai_job.queued => upload_status = "completed"
    /\ overrides > 0 => upload_status # "processing"

\* a request made during the batch was rejected, one made after completion
\* queued the task, and an override was applied to a stored row
C30_Witness ==
    /\ ai_job.rejected
    /\ ai_job.queued
    /\ upload_status = "completed"
    /\ stored_rows # {}
    /\ overrides > 0

====
